---- MODULE Spec2Model ----
(***************************************************************************)
(* A state-machine model of the InMAP simulation driver (framework.go),    *)
(* the variable-resolution grid and its mutator (vargrid.go) and the run   *)
(* list assembled by sr.Worker.Calculate (sr/distributed.go).              *)
(*                                                                         *)
(* Conventions.                                                            *)
(*  - Go pointers are heap references: mem is the heap of Cell objects,    *)
(*    arr the heap of backing arrays of the Index slices.  A slice is a    *)
(*    header [a |-> array, n |-> length]; append follows the Go runtime.   *)
(*  - Lengths are integers in grid units; the inputs are chosen so that    *)
(*    every area-weighted share the code computes in float64 is an exact   *)
(*    integer, so \div stands for the float division.                      *)
(*  - CTM rates (velocities, diffusivities) are held as integer numerators *)
(*    over the denominator data.den, so that small real rates can be used. *)
(*  - A time step is the exact real n/(d*sqrt(3)^s), held as [n, d, s];    *)
(*    d = 0 stands for +Inf (float division by zero).                      *)
(*  - Concentrations and masses are the exact reals (a + b*sqrt(3))/d,     *)
(*    held as [a, b, d]; emission fluxes are fractions <<num, den>>.       *)
(*  - Layer, Row, Col and the nest indices are 0-based as in the source;   *)
(*    TLA+ sequences are 1-based, so position i of a Go slice is i+1 here. *)
(*  - Cell.mutex (a sync.RWMutex) is held as the number of read locks      *)
(*    taken and not released; a writer's Lock needs it to be 0.            *)
(*  - Cell fields no modelled operation reads (mortality rate, baseline    *)
(*    concentrations, web-map geometry, the remaining CTM variables, the   *)
(*    coverage fractions) are left out.                                    *)
(***************************************************************************)
EXTENDS Integers, Sequences, FiniteSets, TLC

VARIABLES
  scn,      \* the inputs of this run (name of a scenario below); never changes
  mem,      \* heap of Cell objects: sequence of Cell records, a *Cell is a position
  arr,      \* heap of Index backing arrays: sequence of [cap, e]
  d,        \* the InMAP struct
  pc,       \* position of Worker.Calculate / InMAP.Init / InMAP.Run
  mg,       \* locals of a MutateGrid call in progress
  timeSince,\* per run-list entry: state of its RunPeriodically closure
  hist,     \* history of the current run (observations only, never read by the program)
  load,     \* a call of LoadCTMData: the file, the VarGridConfig and what it returned
  aim,      \* the earlier AIMdata model: SetupTimeStep, its lock and its goroutines
  wrf       \* the wrf2inmap preprocessor: its goroutines and channels

vars == <<scn, mem, arr, d, pc, mg, timeSince, hist, load, aim, wrf>>

----------------------------------------------------------------------------
(* Bounds of the model. *)

\* A run is cut off after this many passes over RunFuncs.
MaxPasses == 3

----------------------------------------------------------------------------
(* Arithmetic helpers. *)

Abs(x) == IF x < 0 THEN -x ELSE x
Min2(a, b) == IF a <= b THEN a ELSE b
Max2(a, b) == IF a >= b THEN a ELSE b

RECURSIVE GCD(_, _)
GCD(a, b) == IF b = 0 THEN a ELSE GCD(b, a % b)

Range(s) == {s[i] : i \in 1..Len(s)}

\* Takes the element at position i out by moving the last one to its place.
RemoveAt_moveLast(s, i) == SubSeq([s EXCEPT ![i] = s[Len(s)]], 1, Len(s) - 1)
\* Sequence s without its element at position i.
RemoveAt(s, i) == SubSeq(s, 1, i - 1) \o SubSeq(s, i + 1, Len(s))

\* Time steps: the real n/(d*sqrt(3)^s), n >= 0, d >= 0; d = 0 is +Inf.
RZero == [n |-> 0, d |-> 1, s |-> 0]

RNorm(x) ==
  IF x.d = 0 THEN [n |-> 1, d |-> 0, s |-> 0]
  ELSE IF x.n = 0 THEN RZero
  ELSE LET g == GCD(x.n, x.d) IN [n |-> x.n \div g, d |-> x.d \div g, s |-> x.s]

\* x < y on these reals.
RLess(x, y) ==
  IF x.d = 0 THEN FALSE
  ELSE IF y.d = 0 THEN TRUE
  ELSE LET a0 == x.n * y.d
           b0 == y.n * x.d
           g  == GCD(a0, b0)
           a  == IF g = 0 THEN 0 ELSE a0 \div g
           b  == IF g = 0 THEN 0 ELSE b0 \div g
       IN IF x.s = y.s THEN a < b
          ELSE IF x.s = 1 THEN a * a < 3 * b * b
          ELSE 3 * a * a < b * b


\* Concentrations and masses: the real (a + b*sqrt(3))/d, d > 0.
QZero == [a |-> 0, b |-> 0, d |-> 1]

QNorm(x) ==
  LET g == GCD(GCD(Abs(x.a), Abs(x.b)), x.d)
  IN [a |-> x.a \div g, b |-> x.b \div g, d |-> x.d \div g]

QAdd(x, y) ==
  QNorm([a |-> x.a * y.d + y.a * x.d, b |-> x.b * y.d + y.b * x.d, d |-> x.d * y.d])
\* x times the integer k.
QScale(x, k) == QNorm([a |-> x.a * k, b |-> x.b * k, d |-> x.d])
\* x times the fraction f.
QTimesFrac(x, f) == QNorm([a |-> x.a * f[1], b |-> x.b * f[1], d |-> x.d * f[2]])
QSub(x, y) == QAdd(x, QScale(y, -1))

\* The sign of x: -1, 0 or 1.
QSign(x) ==
  IF x.a = 0 /\ x.b = 0 THEN 0
  ELSE IF x.a >= 0 /\ x.b >= 0 THEN 1
  ELSE IF x.a <= 0 /\ x.b <= 0 THEN -1
  ELSE LET g == GCD(Abs(x.a), Abs(x.b))
           a == x.a \div g
           b == x.b \div g
       IN IF a > 0 THEN (IF a * a > 3 * b * b THEN 1 ELSE -1)
          ELSE (IF 3 * b * b > a * a THEN 1 ELSE -1)

QLess(x, y) == QSign(QSub(y, x)) > 0

\* x*k < y*l for integers k, l >= 0; the common factor of x and y is
\* taken out before the products are formed.
QLessScaled(x, k, y, l) ==
  LET g == GCD(GCD(Abs(x.a), Abs(x.b)), GCD(Abs(y.a), Abs(y.b)))
      h == GCD(x.d, y.d)
  IN IF g = 0 THEN FALSE
     ELSE QLess(QScale([a |-> x.a \div g, b |-> x.b \div g, d |-> x.d \div h], k),
                QScale([a |-> y.a \div g, b |-> y.b \div g, d |-> y.d \div h], l))

RECURSIVE QSum(_)
QSum(s) == IF s = <<>> THEN QZero ELSE QAdd(Head(s), QSum(Tail(s)))

\* The time step t = n/(d*sqrt(3)^s), finite, as such a real.
QOfTime(t) ==
  IF t.s = 0 THEN QNorm([a |-> t.n, b |-> 0, d |-> t.d])
  ELSE QNorm([a |-> 0, b |-> t.n, d |-> 3 * t.d])

\* amin(vals...): the smallest of a non-empty list of reals.
RECURSIVE amin(_)
amin(s) ==
  IF Len(s) = 1 THEN s[1]
  ELSE LET m == amin(Tail(s)) IN IF RLess(m, s[1]) THEN m ELSE s[1]

\* Non-negative fractions <<num, den>>, den > 0.
\* The sum of two fractions, in lowest terms (<<1, 0>> is +Inf).
FracAdd(x, y) ==
  LET n == x[1] * y[2] + y[1] * x[2]
      dd == x[2] * y[2]
  IN IF dd = 0 THEN <<1, 0>>
     ELSE IF n = 0 THEN <<0, 1>>
     ELSE <<n \div GCD(n, dd), dd \div GCD(n, dd)>>
\* max(vals...): the largest of a non-empty list of fractions.
RECURSIVE max(_)
max(s) ==
  IF Len(s) = 1 THEN s[1]
  ELSE LET m == max(Tail(s)) IN IF s[1][1] * m[2] < m[1] * s[1][2] THEN m ELSE s[1]

----------------------------------------------------------------------------
(* Rectangles: cell footprints, CTM cells and census shapes. *)

Rect(l, b, r, u) == [l |-> l, b |-> b, r |-> r, u |-> u]
Area(g) == (g.r - g.l) * (g.u - g.b)

\* Area of the intersection of two rectangles (0 when they only touch).
IsectArea(g, h) ==
  LET w == Min2(g.r, h.r) - Max2(g.l, h.l)
      v == Min2(g.u, h.u) - Max2(g.b, h.b)
  IN IF w > 0 /\ v > 0 THEN w * v ELSE 0

\* rtree.SearchIntersect: bounding boxes intersect, touching included.
BoxesIntersect(g, h) ==
  /\ g.l <= h.r /\ h.l <= g.r
  /\ g.b <= h.u /\ h.b <= g.u

\* Twice the centroid (kept doubled so that it stays an integer).
Centroid2(g) == <<g.l + g.r, g.b + g.u>>

----------------------------------------------------------------------------
(* Inputs.  A scenario fixes the VarGridConfig, the CTM data, the census,   *)
(* the emissions and the two function lists of the InMAP struct.            *)

\* The pollutants carried in Ci, Cf and EmisFlux.
NPol == Len(<<"gS", "pS">>)
ZeroConc == [p \in 1..NPol |-> QZero]

\* const gridMutateInterval = 3600. (seconds)
gridMutateInterval == 3600


\* VarGridConfig.  Three outer columns, one outer row; PopGridColumn is the
\* first census column.  PopConcThreshold is the fraction thr[1]/thr[2].
\* In the scenarios partial and uncovered the CTM grid ends at x = 36, short
\* of the east end of the domain at x = 48.
\* Scenario cfl measures lengths in units of 50 m: its outer cells are 240
\* by 240 units (12000 m by 12000 m).
config(sc) ==
  [ VariableGridXo |-> 0, VariableGridYo |-> 0,
    VariableGridDx |-> IF sc = "cfl" THEN 240 ELSE 16,
    VariableGridDy |-> IF sc = "cfl" THEN 240 ELSE 4,
    Xnests |-> <<3, 2, 2, 2>>, Ynests |-> <<1, 1, 2, 1>>,
    HiResLayers |-> 1,
    ctmGridXo |-> 0, ctmGridYo |-> 0,
    ctmGridDx |-> CASE sc \in {"partial", "uncovered"} -> 12
                    [] sc = "cfl" -> 240
                    [] OTHER -> 16,
    ctmGridDy |-> IF sc = "cfl" THEN 240 ELSE 4,
    ctmGridNx |-> 3, ctmGridNy |-> 1,
    PopDensityThreshold |-> IF sc = "deep" THEN 1 ELSE 100,
    PopThreshold |-> IF sc = "deep" THEN 8 ELSE 20,
    PopConcThreshold |-> <<1, 16>>,
    CensusPopColumns |-> <<"TotalPop", "Other">>,
    PopGridColumn |-> "TotalPop" ]

\* popIndices: position of each census column in PopData.
popIndices(sc) ==
  [name \in Range(config(sc).CensusPopColumns) |->
     CHOOSE i \in 1..Len(config(sc).CensusPopColumns) :
        config(sc).CensusPopColumns[i] = name]

\* CTMData: nz layers of the variables SetTimestepCFL reads, uniform over the
\* CTM grid; rates are numerators over den.  Scenario cfl, in units of 50 m:
\* U = V = 5 m/s = 50/500, W = 0, deviations 2.5 m/s = 25/500,
\* Kzz = 10 m2/s = 2/500, Kxxyy = 50 m2/s = 10/500, Dz = 50 m = 1.
ctmdata(sc) ==
  LET m == IF sc \in {"partial", "uncovered"} THEN 4 ELSE 1
  IN IF sc = "cfl"
     THEN [ nz |-> 2, den |-> 500,
            UAvg |-> 50, VAvg |-> 50, WAvg |-> 0,
            UDeviation |-> 25, VDeviation |-> 25,
            Kzz |-> 2, Kxxyy |-> 10, Dz |-> 1 ]
     ELSE
     [ nz |-> 2,
       den |-> m * (CASE sc = "dynamic" -> 400
                      [] sc \in {"partial", "uncovered"} -> 1000
                      [] OTHER -> 1200),
       UAvg |-> m, VAvg |-> 0, WAvg |-> 0,
       UDeviation |-> 0, VDeviation |-> 0,
       Kzz |-> m, Kxxyy |-> m, Dz |-> 4 ]

\* Census shapes (rectangles) with their population per census column.  In
\* scenario deep a third shape lies across cells of every nest depth.
population(sc) ==
  CASE sc \in {"partial", "uncovered"} ->
         << [g |-> Rect(0, 0, 32, 4), PopData |-> <<16, 8>>],
            [g |-> Rect(32, 0, 48, 4), PopData |-> <<64, 32>>] >>
    [] sc = "deep" ->
         << [g |-> Rect(0, 0, 16, 4), PopData |-> <<80, 16>>],
            [g |-> Rect(16, 0, 48, 4), PopData |-> <<32, 0>>],
            [g |-> Rect(2, 0, 10, 4), PopData |-> <<16, 8>>] >>
    [] OTHER ->
         << [g |-> Rect(0, 0, 16, 4), PopData |-> <<80, 16>>],
            [g |-> Rect(16, 0, 48, 4), PopData |-> <<32, 0>>] >>

\* nil; an error value made by fmt.Errorf is a record [msg].
Nil == [nil |-> TRUE]

\* The emis argument of RegularGrid and MutateGrid: nil, or an *Emissions
\* whose data are ground-level point sources with the flux per pollutant.
emissions(sc) ==
  IF sc = "static" THEN Nil
  ELSE [data |-> << [x |-> 1, y |-> 1, flux |-> << <<1, 3200>>, <<1, 3200>> >>] >>]


\* initFuncs of Worker.Calculate; the static scenarios first build a static
\* variable grid with PopulationMutator.
InitFuncs(sc) ==
  IF sc \in {"dynamic", "cfl", "uncovered"}
  THEN << [op |-> "RegularGrid"], [op |-> "SetTimestepCFL"] >>
  ELSE << [op |-> "RegularGrid"], [op |-> "MutateGrid", rule |-> "PopulationMutator"], [op |-> "SetTimestepCFL"] >>

\* A run list whose SetTimestepCFL entry has twice the period.
RunFuncs_slowCFL(sc) ==
  << [op |-> "AddEmissionsFlux"],
     [op |-> "Science"],
     [op |-> "RunPeriodically", period |-> gridMutateInterval,
      f |-> [op |-> "MutateGrid", rule |-> "PopConcMutator"]],
     [op |-> "RunPeriodically", period |-> 2 * gridMutateInterval,
      f |-> [op |-> "SetTimestepCFL"]],
     [op |-> "SteadyStateConvergenceCheck"] >>
\* runFuncs of Worker.Calculate.
RunFuncs(sc) ==
  << [op |-> "AddEmissionsFlux"],
     [op |-> "Science"],
     [op |-> "RunPeriodically", period |-> gridMutateInterval,
      f |-> [op |-> "MutateGrid", rule |-> "PopConcMutator"]],
     [op |-> "RunPeriodically", period |-> gridMutateInterval,
      f |-> [op |-> "SetTimestepCFL"]],
     [op |-> "SteadyStateConvergenceCheck"] >>

\* CleanupFuncs: Worker.Calculate sets none; the other scenarios refine the
\* grid by population once more and set the time step.
CleanupFuncs(sc) ==
  IF sc = "dynamic" THEN <<>>
  ELSE << [op |-> "MutateGrid", rule |-> "PopulationMutator"], [op |-> "SetTimestepCFL"] >>

\* The manipulator an entry finally runs.
Target(f) == IF f.op = "RunPeriodically" THEN f.f ELSE f

----------------------------------------------------------------------------
(* Go slices of nest indices ([][2]int). *)

\* An index that starts as the empty slice.
NewIndex_empty(a, pair) ==
  [arr |-> Append(a, [cap |-> 1, e |-> <<>>]),
   h   |-> [a |-> Len(a) + 1, n |-> 0]]
\* index := [][2]int{{i, j}}: a fresh backing array of capacity 1.
NewIndex(a, pair) ==
  [arr |-> Append(a, [cap |-> 1, e |-> <<pair>>]),
   h   |-> [a |-> Len(a) + 1, n |-> 1]]

\* The capacity the Go runtime gives the new array when append has to grow
\* a slice of capacity cap to hold need elements (small slices double).
growslice(cap, need) == IF 2 * cap >= need THEN 2 * cap ELSE need

\* append(h, pair): writes in place when the backing array has spare
\* capacity (the array is then shared with h), else copies to a new array.
append(a, h, pair) ==
  IF h.n < a[h.a].cap
  THEN LET e == a[h.a].e
           m == Max2(Len(e), h.n + 1)
       IN [arr |-> [a EXCEPT ![h.a].e =
                       [i \in 1..m |-> IF i = h.n + 1 THEN pair ELSE e[i]]],
           h   |-> [a |-> h.a, n |-> h.n + 1]]
  ELSE [arr |-> Append(a, [cap |-> growslice(a[h.a].cap, h.n + 1),
                           e   |-> SubSeq(a[h.a].e, 1, h.n) \o <<pair>>]),
        h   |-> [a |-> Len(a) + 1, n |-> h.n + 1]]


\* The elements a slice header currently shows.
IndexOf(a, h) == SubSeq(a[h.a].e, 1, h.n)

----------------------------------------------------------------------------
(* Cell construction. *)

\* A loop that also divides the offset of the outer level by the first nest.
RECURSIVE cellGeometryLoop_divideOuter(_, _, _, _)
cellGeometryLoop_divideOuter(cfg, idx, i, st) ==
  IF i > Len(idx) THEN st
  ELSE LET x == st.x * cfg.Xnests[i]
           y == st.y * cfg.Ynests[i]
       IN cellGeometryLoop_divideOuter(cfg, idx, i + 1,
            [x |-> IF i > 1 THEN x ELSE st.x, y |-> IF i > 1 THEN y ELSE st.y,
             l |-> st.l + (idx[i][1] * cfg.VariableGridDx) \div x,
             b |-> st.b + (idx[i][2] * cfg.VariableGridDy) \div y])
\* cellGeometry: the footprint of the cell with nest index idx (a sequence
\* of pairs).  st is the loop state [x: xResFac, y: yResFac, l, b].
RECURSIVE cellGeometryLoop(_, _, _, _)
cellGeometryLoop(cfg, idx, i, st) ==
  IF i > Len(idx) THEN st
  ELSE LET x == IF i > 1 THEN st.x * cfg.Xnests[i] ELSE st.x
           y == IF i > 1 THEN st.y * cfg.Ynests[i] ELSE st.y
       IN cellGeometryLoop(cfg, idx, i + 1,
            [x |-> x, y |-> y,
             l |-> st.l + (idx[i][1] * cfg.VariableGridDx) \div x,
             b |-> st.b + (idx[i][2] * cfg.VariableGridDy) \div y])

\* The rectangle for the loop state st.
geomOf(cfg, st) ==
  Rect(st.l, st.b,
       st.l + cfg.VariableGridDx \div st.x,
       st.b + cfg.VariableGridDy \div st.y)

cellGeometry(cfg, idx) ==
  geomOf(cfg, cellGeometryLoop(cfg, idx, 1,
                [x |-> 1, y |-> 1, l |-> cfg.VariableGridXo, b |-> cfg.VariableGridYo]))

\* makeCTMgrid: the footprints of the CTM cells of one layer.
makeCTMgrid(cfg) ==
  { Rect(cfg.ctmGridXo + cfg.ctmGridDx * ix,
         cfg.ctmGridYo + cfg.ctmGridDy * iy,
         cfg.ctmGridXo + cfg.ctmGridDx * (ix + 1),
         cfg.ctmGridYo + cfg.ctmGridDy * (iy + 1)) :
      ix \in 0..(cfg.ctmGridNx - 1), iy \in 0..(cfg.ctmGridNy - 1) }

RECURSIVE SumAreas(_, _)
SumAreas(S, g) ==
  IF S = {} THEN 0
  ELSE LET h == CHOOSE x \in S : TRUE
       IN IsectArea(h, g) + SumAreas(S \ {h}, g)

\* The area-weighted average of each variable over the CTM cells; the data
\* are uniform, so the weighted sum is value * covered area / cell area.
weighted(data, area, covered, none) ==
  [ err |-> none,
    UAvg |-> (data.UAvg * covered) \div area,
    VAvg |-> (data.VAvg * covered) \div area,
    WAvg |-> (data.WAvg * covered) \div area,
    UDeviation |-> (data.UDeviation * covered) \div area,
    VDeviation |-> (data.VDeviation * covered) \div area,
    Kzz |-> (data.Kzz * covered) \div area,
    Kxxyy |-> (data.Kxxyy * covered) \div area,
    Dz |-> (data.Dz * covered) \div area ]

\* Cell.loadData: err when no CTM cell overlaps the cell.
loadData(cfg, data, g, k) ==
  LET ctmcells == IF k \in 0..(data.nz - 1)
                  THEN {h \in makeCTMgrid(cfg) : BoxesIntersect(h, g) /\ IsectArea(h, g) > 0}
                  ELSE {}
  IN weighted(data, Area(g), SumAreas(ctmcells, g), ctmcells = {})

\* The census shapes rtree.SearchIntersect returns for the cell's bounds.
RECURSIVE PopShare(_, _, _)
PopShare(pop, g, col) ==
  IF pop = <<>> THEN 0
  ELSE (IF BoxesIntersect(Head(pop).g, g)
        THEN (Head(pop).PopData[col] * IsectArea(g, Head(pop).g)) \div Area(Head(pop).g)
        ELSE 0) + PopShare(Tail(pop), g, col)

\* Cell.make: the concentration arrays start at zero.
make(c) == [c EXCEPT !.Ci = ZeroConc, !.Cf = ZeroConc,
                     !.EmisFlux = [p \in 1..NPol |-> <<0, 1>>]]

\* The cell with slice header h, footprint g and loaded CTM data ld.
newCell(sc, h, layer, g, ld) ==
  [err |-> ld.err,
   cell |-> make(
     [ Index |-> h, geom |-> g, Layer |-> layer,
       PopData |-> [col \in 1..Len(config(sc).CensusPopColumns) |->
                      PopShare(population(sc), g, col)],
       AboveDensityThreshold |->
         \E i \in 1..Len(population(sc)) :
            /\ BoxesIntersect(population(sc)[i].g, g)
            /\ population(sc)[i].PopData[popIndices(sc)[config(sc).PopGridColumn]]
                 > config(sc).PopDensityThreshold * Area(population(sc)[i].g),
       Dx |-> g.r - g.l, Dy |-> g.u - g.b,
       Dz |-> ld.Dz, Volume |-> (g.r - g.l) * (g.u - g.b) * ld.Dz,
       UAvg |-> ld.UAvg, VAvg |-> ld.VAvg, WAvg |-> ld.WAvg,
       UDeviation |-> ld.UDeviation, VDeviation |-> ld.VDeviation,
       Kzz |-> ld.Kzz, Kxxyy |-> ld.Kxxyy,
       Ci |-> <<>>, Cf |-> <<>>, EmisFlux |-> <<>>,
       west |-> <<>>, east |-> <<>>, south |-> <<>>, north |-> <<>>,
       below |-> <<>>, above |-> <<>>, groundLevel |-> <<>>,
       boundary |-> FALSE, mutex |-> 0 ])]

createCellAt(sc, h, layer, g) ==
  newCell(sc, h, layer, g, loadData(config(sc), ctmdata(sc), g, layer))

\* createCell: a new cell for the nest index shown by slice header h in
\* layer k; err when no CTM data overlaps it.
createCell(sc, a, h, layer) ==
  createCellAt(sc, h, layer, cellGeometry(config(sc), IndexOf(a, h)))

\* A copy that does not set the boundary flag.
boundaryCopy_noFlag(c) ==
  make([c EXCEPT !.Index = [a |-> 0, n |-> 0],
                 !.Volume = c.Dx * c.Dy * c.Dz,
                 !.AboveDensityThreshold = FALSE, !.mutex = 0,
                 !.west = <<>>, !.east = <<>>, !.south = <<>>, !.north = <<>>,
                 !.below = <<>>, !.above = <<>>, !.groundLevel = <<>>])
\* Cell.boundaryCopy: a boundary cell copied from c, with zero concentrations
\* and no neighbors.
boundaryCopy(c) ==
  make([c EXCEPT !.boundary = TRUE,
                 !.Index = [a |-> 0, n |-> 0],
                 !.Volume = c.Dx * c.Dy * c.Dz,
                 !.AboveDensityThreshold = FALSE, !.mutex = 0,
                 !.west = <<>>, !.east = <<>>, !.south = <<>>, !.north = <<>>,
                 !.below = <<>>, !.above = <<>>, !.groundLevel = <<>>])

\* Cell.setEmissionsFlux: the flux of the ground-level sources that lie in
\* the cell.
RECURSIVE EmisSum(_, _, _)
EmisSum(emis, c, p) ==
  IF emis = <<>> THEN <<0, 1>>
  ELSE FracAdd(
        IF /\ c.Layer = 0
           /\ c.geom.l <= Head(emis).x /\ Head(emis).x < c.geom.r
           /\ c.geom.b <= Head(emis).y /\ Head(emis).y < c.geom.u
        THEN Head(emis).flux[p] ELSE <<0, 1>>,
        EmisSum(Tail(emis), c, p))

setEmissionsFlux(c, emis) ==
  [c EXCEPT !.EmisFlux = [p \in 1..NPol |-> EmisSum(emis.data, c, p)]]

----------------------------------------------------------------------------
(* Neighbors.  A world W is the record [mem, arr, d] of the two heaps and   *)
(* the InMAP struct.                                                        *)

Faces == <<"west", "east", "south", "north", "above", "below", "groundLevel">>
BoundaryFaces == {"west", "east", "south", "north", "above"}

\* The boundary collection of the InMAP struct that belongs to a face.
Collection(face) ==
  CASE face = "west" -> "westBoundary"
    [] face = "east" -> "eastBoundary"
    [] face = "south" -> "southBoundary"
    [] face = "north" -> "northBoundary"
    [] face = "above" -> "topBoundary"


\* Is grid cell n a neighbor of cell c on the given face?
IsNeighbor(c, n, face) ==
  CASE face = "west"  -> n.Layer = c.Layer /\ n.geom.r = c.geom.l /\ Min2(c.geom.u, n.geom.u) > Max2(c.geom.b, n.geom.b)
    [] face = "east"  -> n.Layer = c.Layer /\ n.geom.l = c.geom.r /\ Min2(c.geom.u, n.geom.u) > Max2(c.geom.b, n.geom.b)
    [] face = "south" -> n.Layer = c.Layer /\ n.geom.u = c.geom.b /\ Min2(c.geom.r, n.geom.r) > Max2(c.geom.l, n.geom.l)
    [] face = "north" -> n.Layer = c.Layer /\ n.geom.b = c.geom.u /\ Min2(c.geom.r, n.geom.r) > Max2(c.geom.l, n.geom.l)
    [] face = "above" -> n.Layer = c.Layer + 1 /\ IsectArea(c.geom, n.geom) > 0
    [] face = "below" -> n.Layer = c.Layer - 1 /\ IsectArea(c.geom, n.geom) > 0
    [] face = "groundLevel" -> n.Layer = 0 /\ IsectArea(c.geom, n.geom) > 0

\* Sort key of a cell: layer, then centroid x, then centroid y.
KeyLess(c1, c2) ==
  LET k1 == Centroid2(c1.geom)
      k2 == Centroid2(c2.geom)
  IN \/ c1.Layer < c2.Layer
     \/ c1.Layer = c2.Layer /\ k1[1] < k2[1]
     \/ c1.Layer = c2.Layer /\ k1[1] = k2[1] /\ k1[2] < k2[2]

SameKey(c1, c2) == ~KeyLess(c1, c2) /\ ~KeyLess(c2, c1)

\* The cells of set S (heap positions) in sort order, ties by heap position.
RECURSIVE SortIds(_, _)
SortIds(m, S) ==
  IF S = {} THEN <<>>
  ELSE LET first == CHOOSE x \in S : \A y \in S \ {x} :
                       \/ KeyLess(m[x], m[y])
                       \/ SameKey(m[x], m[y]) /\ x < y
       IN <<first>> \o SortIds(m, S \ {first})

\* The grid cells on a face of cell id, ordered by centroid.  The bottom
\* boundary is the lowest layer itself.
FaceList(W, id, face) ==
  LET c == W.mem[id]
  IN IF face = "below" /\ c.Layer = 0 THEN <<id>>
     ELSE SortIds(W.mem, {n \in W.d.index :
                            (n # id \/ face = "groundLevel") /\ IsNeighbor(c, W.mem[n], face)})

IsBoundaryList(W, list) == Len(list) = 1 /\ W.mem[list[1]].boundary

\* addWestBoundary .. addTopBoundary: one boundary copy of the cell becomes
\* the only entry of its list for the face and joins the collection.
addBoundary(W, id, face) ==
  LET b == Len(W.mem) + 1
  IN [W EXCEPT !.mem = Append([W.mem EXCEPT ![id][face] = <<b>>], boundaryCopy(W.mem[id])),
               !.d[Collection(face)] = Append(@, b)]

\* The list cell id gets for one face: the grid cells there; on a face
\* without grid cells the list stays as it is (a boundary cell, once made).
relistFace(W, id, face) ==
  LET real == FaceList(W, id, face)
  IN IF face \in BoundaryFaces /\ real = <<>> THEN W.mem[id][face] ELSE real

relist(W, id) ==
  [W.mem[id] EXCEPT !.west = relistFace(W, id, "west"),
                    !.east = relistFace(W, id, "east"),
                    !.south = relistFace(W, id, "south"),
                    !.north = relistFace(W, id, "north"),
                    !.above = relistFace(W, id, "above"),
                    !.below = relistFace(W, id, "below"),
                    !.groundLevel = relistFace(W, id, "groundLevel")]

\* The boundary collections without the cells of set S.
prune(dd, S) ==
  [dd EXCEPT !.westBoundary  = SelectSeq(@, LAMBDA b : b \notin S),
             !.eastBoundary  = SelectSeq(@, LAMBDA b : b \notin S),
             !.southBoundary = SelectSeq(@, LAMBDA b : b \notin S),
             !.northBoundary = SelectSeq(@, LAMBDA b : b \notin S),
             !.topBoundary   = SelectSeq(@, LAMBDA b : b \notin S)]

\* The faces that need a boundary cell (no grid cell and no boundary cell
\* yet), cell by cell in the order of ids.
BoundaryFaceSeq == <<"west", "east", "south", "north", "above">>
needed(W, ids) ==
  SelectSeq([k \in 1..(Len(ids) * Len(BoundaryFaceSeq)) |->
               <<ids[((k - 1) \div Len(BoundaryFaceSeq)) + 1],
                 BoundaryFaceSeq[((k - 1) % Len(BoundaryFaceSeq)) + 1]>>],
            LAMBDA p : /\ p[2] \in BoundaryFaces
                       /\ FaceList(W, p[1], p[2]) = <<>>
                       /\ ~IsBoundaryList(W, W.mem[p[1]][p[2]]))

\* st = [k, W]: the first k of the faces in todo have their boundary cell.
RECURSIVE addBoundaries(_, _)
addBoundaries(st, todo) ==
  IF st.k >= Len(todo) THEN st.W
  ELSE addBoundaries([k |-> st.k + 1,
                      W |-> addBoundary(st.W, todo[st.k + 1][1], todo[st.k + 1][2])],
                     todo)

\* Re-derives the neighbor lists of the grid cells ids (a sequence): grid
\* cells replace boundary cells, and faces left without a cell get one.
rewire(W, ids) ==
  LET W1 == [W EXCEPT !.mem = SubSeq([i \in 1..Len(W.mem) |->
                                        IF i \in Range(ids) THEN relist(W, i) ELSE W.mem[i]],
                                     1, Len(W.mem)),
                      !.d = prune(@, {b \in 1..Len(W.mem) :
                              \E n \in Range(ids) : \E face \in BoundaryFaces :
                                /\ IsBoundaryList(W, W.mem[n][face])
                                /\ W.mem[n][face][1] = b
                                /\ FaceList(W, n, face) # <<>>})]
  IN addBoundaries([k |-> 0, W |-> W1], needed(W, ids))

\* InMAP.setNeighbors: the lists of the new cell and of the cells it touches.
setNeighbors(W, id) ==
  rewire(W, <<id>> \o SortIds(W.mem, {n \in W.d.index \ {id} :
                         \E i \in 1..Len(Faces) : IsNeighbor(W.mem[n], W.mem[id], Faces[i])}))

\* Cell.dereferenceNeighbors: cell id has left the grid; it is removed from
\* every list, emptied faces are re-bound to a boundary copy, and its own
\* boundary cells leave their collections.
dereferenceNeighbors(W, id) ==
  rewire([W EXCEPT !.d = prune(@, {b \in 1..Len(W.mem) :
                                     \E face \in BoundaryFaces :
                                       /\ IsBoundaryList(W, W.mem[id][face])
                                       /\ W.mem[id][face][1] = b})],
         SortIds(W.mem, {n \in W.d.index :
                           \E i \in 1..Len(Faces) : id \in Range(W.mem[n][Faces[i]])}))

----------------------------------------------------------------------------
(* Adding, deleting and sorting cells. *)

\* An AddCells that leaves the cell out of the spatial index.
AddCells_noInsert(W, c) ==
  LET id == Len(W.mem) + 1
      W1 == [W EXCEPT !.mem = Append(@, c),
                      !.d.nlayers = IF c.Layer > @ - 1 THEN c.Layer + 1 ELSE @,
                      !.d.cells = Append(@, id)]
  IN setNeighbors(W1, id)
\* InMAP.AddCells for one cell record c.
AddCells(W, c) ==
  LET id == Len(W.mem) + 1
      W1 == [W EXCEPT !.mem = Append(@, c),
                      !.d.nlayers = IF c.Layer > @ - 1 THEN c.Layer + 1 ELSE @,
                      !.d.cells = Append(@, id),
                      !.d.index = @ \cup {id}]
  IN setNeighbors(W1, id)

\* A DeleteCells that takes the cells out of d.cells and the index only.
RECURSIVE DeleteCellsLoop_keepReferences(_, _)
DeleteCellsLoop_keepReferences(st, indicesToDelete) ==
  IF st.indexToSubtract >= Len(indicesToDelete) THEN st.W
  ELSE LET i  == indicesToDelete[st.indexToSubtract + 1] - st.indexToSubtract
           c  == st.W.d.cells[i + 1]
           W1 == [st.W EXCEPT !.d.cells = RemoveAt(@, i + 1),
                              !.d.index = @ \ {c}]
       IN DeleteCellsLoop_keepReferences([W |-> W1,
                                          indexToSubtract |-> st.indexToSubtract + 1],
                                         indicesToDelete)
\* InMAP.DeleteCells: indicesToDelete are 0-based positions in d.cells
\* before the call.  st = [W, indexToSubtract] is the state of the loop.
RECURSIVE DeleteCellsLoop(_, _)
DeleteCellsLoop(st, indicesToDelete) ==
  IF st.indexToSubtract >= Len(indicesToDelete) THEN st.W
  ELSE LET i  == indicesToDelete[st.indexToSubtract + 1] - st.indexToSubtract
           c  == st.W.d.cells[i + 1]
           W1 == [st.W EXCEPT !.d.cells = RemoveAt(@, i + 1),
                              !.d.index = @ \ {c}]
       IN DeleteCellsLoop([W |-> dereferenceNeighbors(W1, c),
                           indexToSubtract |-> st.indexToSubtract + 1],
                          indicesToDelete)

DeleteCells(W, indicesToDelete) ==
  DeleteCellsLoop([W |-> W, indexToSubtract |-> 0], indicesToDelete)


\* InMAP.sort: the cell list and the five boundary collections.
AllLists == <<"cells", "westBoundary", "eastBoundary", "northBoundary",
              "southBoundary", "topBoundary">>

\* A sort that leaves every list as it is.
sort_asIs(W) == W
sort(W) ==
  [W EXCEPT !.d = [f \in DOMAIN W.d |->
                     IF f \in Range(AllLists) THEN SortIds(W.mem, Range(W.d[f])) ELSE W.d[f]]]

\* cellsSorter.Less panics on two cells of equal layer and centroid, and a
\* sort compares every two cells that end up adjacent.
sortPanics(W) ==
  \E k \in 1..Len(AllLists) : \E i, j \in 1..Len(W.d[AllLists[k]]) :
    i < j /\ SameKey(W.mem[W.d[AllLists[k]][i]], W.mem[W.d[AllLists[k]][j]])

----------------------------------------------------------------------------
(* Grid construction and mutation. *)

World(m, a, dd) == [mem |-> m, arr |-> a, d |-> dd]

\* Adds emissions to the cells at 0-based positions from..len(d.cells)-1.
RECURSIVE emisLoop(_, _, _)
emisLoop(W, emis, i) ==
  IF i >= Len(W.d.cells) THEN W
  ELSE LET id == W.d.cells[i + 1]
       IN emisLoop([W EXCEPT !.mem[id] = setEmissionsFlux(W.mem[id], emis)], emis, i + 1)

\* RegularGrid, lines 371-381: the body of the loops for the n-th cell, with
\* its index ix and the result cc of createCell.  W holds the new index.
RECURSIVE RegularGridLoop(_, _, _)
gridAdd(sc, W, n, cc) ==
  IF cc.err THEN [W |-> W, err |-> TRUE]
  ELSE RegularGridLoop(sc, AddCells(W, cc.cell), n + 1)

gridStep(sc, W, n, k, ix) ==
  gridAdd(sc, [W EXCEPT !.arr = ix.arr], n, createCell(sc, ix.arr, ix.h, k))

\* RegularGrid, the loops over k, j, i flattened: n counts the cells made.
RegularGridLoop(sc, W, n) ==
  LET nx == config(sc).Xnests[1]
      ny == config(sc).Ynests[1]
      nz == ctmdata(sc).nz
  IN IF n >= nx * ny * nz THEN [W |-> W, err |-> FALSE]
     ELSE gridStep(sc, W, n, n \div (nx * ny),
                   NewIndex(W.arr, <<n % nx, (n \div nx) % ny>>))

\* RegularGrid, lines 383-389: the emissions of the new cells, "if emis != nil".
gridEmissions(sc, r) ==
  IF r.err \/ emissions(sc) = Nil THEN r
  ELSE [W |-> emisLoop(r.W, emissions(sc), 0), err |-> FALSE]

\* RegularGrid: the cells of the outermost nest, then their emissions.
RegularGrid(sc, W) ==
  gridEmissions(sc,
    RegularGridLoop(sc, [W EXCEPT !.d.nlayers = ctmdata(sc).nz, !.d.index = {},
                                  !.d.cells = <<>>], 0))

\* A rule that does not look at the layer.
PopulationMutator_anyLayer(sc, cell, totalMass, totalPopulation) ==
  \/ cell.AboveDensityThreshold
  \/ cell.PopData[popIndices(sc)[config(sc).PopGridColumn]] > config(sc).PopThreshold
\* PopulationMutator.
PopulationMutator(sc, cell, totalMass, totalPopulation) ==
  /\ cell.Layer < config(sc).HiResLayers
  /\ \/ cell.AboveDensityThreshold
     \/ cell.PopData[popIndices(sc)[config(sc).PopGridColumn]] > config(sc).PopThreshold

\* Sum over the pollutants of |conc - cell.Cf[i]|.
SumAbsDiff(x, y) ==
  QSum([i \in 1..Len(x) |-> QScale(QSub(x[i], y[i]), QSign(QSub(x[i], y[i])))])

\* v / totalMassPop > threshold, for the fraction threshold.
RatioAbove(v, totalMassPop, threshold) ==
  IF QSign(totalMassPop) > 0
  THEN QLessScaled(totalMassPop, threshold[1], v, threshold[2])
  ELSE IF QSign(totalMassPop) < 0
  THEN QLessScaled(v, threshold[2], totalMassPop, threshold[1])
  ELSE QSign(v) > 0

\* PopConcMutator.
PopConcMutator(sc, m, cell, totalMass, totalPopulation) ==
  IF QSign(totalMass) = 0 \/ totalPopulation = 0 THEN FALSE
  ELSE LET totalMassPop == QScale(totalMass, totalPopulation)
           iPop == popIndices(sc)[config(sc).PopGridColumn]
       IN \E group \in {cell.west, cell.east, cell.north, cell.south} :
            \E k \in 1..Len(group) :
              LET neighbor == m[group[k]]
                  SDC == SumAbsDiff(neighbor.Cf, cell.Cf)
                  DP  == Abs(cell.PopData[iPop] - neighbor.PopData[iPop])
              IN RatioAbove(QScale(SDC, (cell.Volume + neighbor.Volume) * DP),
                            totalMassPop, config(sc).PopConcThreshold)

\* The GridMutator handed to MutateGrid.
divideRule(sc, rule, m, cell, totalMass, totalPopulation) ==
  IF rule = "PopulationMutator"
  THEN PopulationMutator(sc, cell, totalMass, totalPopulation)
  ELSE PopConcMutator(sc, m, cell, totalMass, totalPopulation)

\* MutateGrid, lines 402-410: the totals handed to divideRule.
RECURSIVE totalMassOf(_, _)
totalMassOf(m, cells) ==
  IF cells = <<>> THEN QZero
  ELSE QAdd(QScale(QSum(m[Head(cells)].Cf), m[Head(cells)].Volume),
            totalMassOf(m, Tail(cells)))

RECURSIVE totalPopulationOf(_, _, _)
totalPopulationOf(m, cells, iPop) ==
  IF cells = <<>> THEN 0
  ELSE (IF m[Head(cells)].Layer = 0 THEN m[Head(cells)].PopData[iPop] ELSE 0)
       + totalPopulationOf(m, Tail(cells), iPop)

\* The number of children of a cell whose Index has length n.
NumChildren(cfg, n) == cfg.Xnests[n + 1] * cfg.Ynests[n + 1]

\* MutateGrid, lines 433-439: the child indices of one cell, each appended
\* to the parent's Index slice h.  st = [k, arr, hs]: k children made so far
\* (jj runs fastest), the array heap and the slice headers made.
RECURSIVE childLoop(_, _, _)
childLoop(cfg, h, st) ==
  IF st.k >= NumChildren(cfg, h.n) THEN st
  ELSE LET ii == st.k \div cfg.Ynests[h.n + 1]
           jj == st.k % cfg.Ynests[h.n + 1]
           r  == append(st.arr, h, <<ii, jj>>)
       IN childLoop(cfg, h, [k |-> st.k + 1, arr |-> r.arr, hs |-> Append(st.hs, r.h)])

\* MutateGrid, lines 428-439: the cell at position acc.i is to be split and
\* ch holds its child indices.
sweepSplit(acc, layer, ch) ==
  [i |-> acc.i + 1,
   arr |-> ch.arr,
   newCellIndices |-> acc.newCellIndices \o ch.hs,
   newCellLayers |-> acc.newCellLayers \o [x \in 1..Len(ch.hs) |-> layer],
   indicesToDelete |-> Append(acc.indicesToDelete, acc.i),
   continueMutating |-> TRUE]

\* MutateGrid, lines 423-442: one sweep over d.cells.  acc holds the position
\* i, arr, newCellIndices, newCellLayers, indicesToDelete, continueMutating.
RECURSIVE sweep(_, _, _, _, _, _)
sweep(sc, rule, W, totalMass, totalPopulation, acc) ==
  IF acc.i >= Len(W.d.cells) THEN acc
  ELSE LET cell == W.mem[W.d.cells[acc.i + 1]]
       IN IF /\ cell.Index.n < Len(config(sc).Xnests)
             /\ divideRule(sc, rule, W.mem, cell, totalMass, totalPopulation)
          THEN sweep(sc, rule, W, totalMass, totalPopulation,
                     sweepSplit(acc, cell.Layer,
                                childLoop(config(sc), cell.Index,
                                          [k |-> 0, arr |-> acc.arr, hs |-> <<>>])))
          ELSE sweep(sc, rule, W, totalMass, totalPopulation, [acc EXCEPT !.i = @ + 1])

\* deleteAndAddCells, lines 462-468: creates and adds the new cells in turn
\* and stops at the first createCell error.
RECURSIVE addLoop(_, _, _, _, _)
addStep(sc, W, newCellIndices, newCellLayers, i, cc) ==
  IF cc.err THEN [W |-> W, err |-> TRUE]
  ELSE addLoop(sc, AddCells(W, cc.cell), newCellIndices, newCellLayers, i + 1)

addLoop(sc, W, newCellIndices, newCellLayers, i) ==
  IF i > Len(newCellIndices) THEN [W |-> W, err |-> FALSE]
  ELSE addStep(sc, W, newCellIndices, newCellLayers, i,
               createCell(sc, W.arr, newCellIndices[i], newCellLayers[i]))

\* The first position the emissions loop of deleteAndAddCells visits
\* (0-based), given the number of cells left after the deletion.
emisStart(oldNumCells) == oldNumCells - 1

\* deleteAndAddCells, lines 469-476, after the loop ended with r: nothing
\* when emis is nil.  panic: the emissions loop indexes d.cells at -1.
addEmissions(sc, oldNumCells, r) ==
  IF r.err THEN [W |-> r.W, err |-> TRUE, panic |-> FALSE]
  ELSE IF emissions(sc) = Nil THEN [W |-> r.W, err |-> FALSE, panic |-> FALSE]
  ELSE IF emisStart(oldNumCells) < 0
  THEN [W |-> r.W, err |-> FALSE, panic |-> TRUE]
  ELSE [W |-> emisLoop(r.W, emissions(sc), emisStart(oldNumCells)),
        err |-> FALSE, panic |-> FALSE]

\* deleteAndAddCells, lines 461-476, W1 being the grid after DeleteCells.
addAfterDelete(sc, W1, newCellIndices, newCellLayers) ==
  addEmissions(sc, Len(W1.d.cells), addLoop(sc, W1, newCellIndices, newCellLayers, 1))

\* deleteAndAddCells.
deleteAndAddCells(sc, W, newCellIndices, newCellLayers, indicesToDelete) ==
  addAfterDelete(sc, DeleteCells(W, indicesToDelete), newCellIndices, newCellLayers)

\* The outcome of an iteration with sweep result acc and the result r of
\* deleteAndAddCells.
roundResult_goOn(acc, r) ==
  [W |-> r.W, err |-> r.err, panic |-> r.panic,
   continueMutating |-> TRUE,
   indicesToDelete |-> acc.indicesToDelete]
roundResult(acc, r) ==
  [W |-> r.W, err |-> r.err, panic |-> r.panic,
   continueMutating |-> acc.continueMutating,
   indicesToDelete |-> acc.indicesToDelete]

roundApply(sc, W, acc) ==
  roundResult(acc, deleteAndAddCells(sc, [W EXCEPT !.arr = acc.arr], acc.newCellIndices,
                                     acc.newCellLayers, acc.indicesToDelete))

\* One iteration of the loop "for continueMutating" of MutateGrid.
mutateRound(sc, rule, W, totalMass, totalPopulation) ==
  roundApply(sc, W,
    sweep(sc, rule, W, totalMass, totalPopulation,
          [i |-> 0, arr |-> W.arr, newCellIndices |-> <<>>, newCellLayers |-> <<>>,
           indicesToDelete |-> <<>>, continueMutating |-> FALSE]))

----------------------------------------------------------------------------
(* The time step. *)

\* const Cmax = 1.
Cmax == 1

\* The four limits of one cell; den is the denominator of the CTM rates.
dt1(c, den) ==
  LET m == max(<< <<Abs(c.UAvg) + c.UDeviation * 2, den * c.Dx>>,
                  <<Abs(c.VAvg) + c.VDeviation * 2, den * c.Dy>>,
                  <<Abs(c.WAvg), den * c.Dz>> >>)
  IN RNorm([n |-> Cmax * m[2], d |-> m[1], s |-> 1])
\* A vertical diffusion limit without the division by 2.
dt2_noHalf(c, den) == RNorm([n |-> Cmax * c.Dz * c.Dz * den, d |-> c.Kzz, s |-> 0])
dt2(c, den) == RNorm([n |-> Cmax * c.Dz * c.Dz * den, d |-> 2 * c.Kzz, s |-> 0])
dt3(c, den) == RNorm([n |-> Cmax * c.Dx * c.Dx * den, d |-> 2 * c.Kxxyy, s |-> 0])
dt4(c, den) == RNorm([n |-> Cmax * c.Dy * c.Dy * den, d |-> 2 * c.Kxxyy, s |-> 0])

\* A loop body that takes the minimum with the old d.Dt for every cell.
cflStep_keepOld(Dt, c, i, den) ==
  amin(<<Dt, dt1(c, den), dt2(c, den), dt3(c, den), dt4(c, den)>>)
\* The body of the loop of SetTimestepCFL for the cell at 0-based position i.
cflStep(Dt, c, i, den) ==
  IF i = 0 THEN amin(<<dt1(c, den), dt2(c, den), dt3(c, den), dt4(c, den)>>)
  ELSE amin(<<Dt, dt1(c, den), dt2(c, den), dt3(c, den), dt4(c, den)>>)

\* The loop of SetTimestepCFL; st = [i, Dt].
RECURSIVE cflLoop(_, _, _, _)
cflLoop(m, cells, den, st) ==
  IF st.i >= Len(cells) THEN st.Dt
  ELSE cflLoop(m, cells, den,
               [i |-> st.i + 1, Dt |-> cflStep(st.Dt, m[cells[st.i + 1]], st.i, den)])

\* SetTimestepCFL: the new d.Dt.
SetTimestepCFL(sc, W) ==
  cflLoop(W.mem, W.d.cells, ctmdata(sc).den, [i |-> 0, Dt |-> W.d.Dt])

----------------------------------------------------------------------------
(* RunPeriodically: the closure keeps the simulated time since it last ran  *)
(* its function, as the real r + q/sqrt(3) with fractions r and q.          *)


\* timeSinceLastRun += d.Dt
AccAdd(acc, Dt) ==
  IF Dt.s = 0 THEN [acc EXCEPT !.r = FracAdd(@, <<Dt.n, Dt.d>>)]
  ELSE [acc EXCEPT !.q = FracAdd(@, <<Dt.n, Dt.d>>)]

\* timeSinceLastRun >= period
AccGeq(acc, period) ==
  IF acc.r[2] = 0 \/ acc.q[2] = 0 THEN TRUE
  ELSE LET xn == period * acc.r[2] - acc.r[1]      \* period - r = xn / acc.r[2]
           a0 == acc.q[1] * acc.r[2]
           b0 == xn * acc.q[2]
           g  == GCD(a0, Abs(b0))
           a  == IF g = 0 THEN 0 ELSE a0 \div g
           b  == IF g = 0 THEN 0 ELSE b0 \div g
       IN IF xn <= 0 THEN TRUE ELSE a * a >= 3 * b * b

\* Does a call of the run-list entry f, whose closure holds acc, run its
\* function now?
Fires(f, acc, Dt) ==
  IF f.op = "RunPeriodically" THEN AccGeq(AccAdd(acc, Dt), f.period) ELSE TRUE


----------------------------------------------------------------------------
(* The physics passes. *)

\* The emissions manipulator of the worker's run list, as the specification
\* gives it; for one cell: Cf grows by EmisFlux * Dt and Ci is set to Cf.
addEmissionsFlux(c, Dt) ==
  LET finalConc == [p \in 1..NPol |->
                      QAdd(c.Cf[p], QTimesFrac(QOfTime(Dt), c.EmisFlux[p]))]
  IN [c EXCEPT !.Cf = finalConc, !.Ci = finalConc]

\* The pass over the cells of the grid, with the time step of the grid.
AddEmissionsFlux(W) ==
  [W EXCEPT !.mem = [id \in 1..Len(W.mem) |->
                       IF id \in Range(W.d.cells) THEN addEmissionsFlux(W.mem[id], W.d.Dt)
                       ELSE W.mem[id]]]


----------------------------------------------------------------------------
(* LoadCTMData.  A file is [opens, dx, dy, nx, ny, x0, y0, data_version,   *)
(* nz, vars]: whether cdf.Open succeeds, the global attributes, the length *)
(* of the first dimension of UAvg and the variables in header order, each  *)
(* [name, dims, data, readErr] with readErr saying that reading its data   *)
(* fails.  The header holds every attribute that LoadCTMData asks for.     *)

InMAPDataVersion == "1.2.0"

RECURSIVE Product(_)
Product(s) == IF s = <<>> THEN 1 ELSE Head(s) * Product(Tail(s))

\* The loop over f.Header.Variables(), lines 117-152; st = [i, od, read]
\* with od the map filled so far and read the names of the variables whose
\* data have been asked for.
RECURSIVE loadVariables(_, _, _)
loadVariables(file, cfg, st) ==
  IF st.i > Len(file.vars)
  THEN [o |-> [nz |-> file.nz, data |-> st.od], err |-> Nil, config |-> cfg,
        read |-> st.read]
  ELSE LET v == file.vars[st.i]
           n == Product(v.dims)
       IN IF v.readErr
          THEN [o |-> Nil, err |-> [msg |-> "read"], config |-> cfg,
                read |-> Append(st.read, v.name)]
          ELSE IF Len(v.data) # n       \* tmp has the length of the dims
          THEN [o |-> Nil, err |-> [msg |-> "dims"], config |-> cfg,
                read |-> Append(st.read, v.name)]
          ELSE loadVariables(file, cfg,
                 [i |-> st.i + 1,
                  od |-> [k \in DOMAIN st.od \cup {v.name} |->
                            IF k = v.name THEN [dims |-> v.dims, data |-> v.data]
                            ELSE st.od[k]],
                  read |-> Append(st.read, v.name)])

\* The grid attributes of the file, written to the config, lines 105-110.
withCtmGrid(cfg, file) ==
  [cfg EXCEPT !.ctmGridDx = file.dx, !.ctmGridDy = file.dy,
              !.ctmGridNx = file.nx, !.ctmGridNy = file.ny,
              !.ctmGridXo = file.x0, !.ctmGridYo = file.y0]

\* A loader that does not look at the data version.
LoadCTMData_anyVersion(cfg, file) ==
  IF ~file.opens
  THEN [o |-> Nil, err |-> [msg |-> "open"], config |-> cfg, read |-> <<>>]
  ELSE loadVariables(file, withCtmGrid(cfg, file),
                     [i |-> 1, od |-> <<>>, read |-> <<>>])

\* VarGridConfig.LoadCTMData: [o, err, config, read], the two results, the
\* config after the call and the variables read.
LoadCTMData(cfg, file) ==
  IF ~file.opens
  THEN [o |-> Nil, err |-> [msg |-> "open"], config |-> cfg, read |-> <<>>]
  ELSE IF file.data_version # InMAPDataVersion
  THEN [o |-> Nil, err |-> [msg |-> "data version"], config |-> withCtmGrid(cfg, file), read |-> <<>>]
  ELSE loadVariables(file, withCtmGrid(cfg, file),
                     [i |-> 1, od |-> <<>>, read |-> <<>>])

\* The files of the loader's specification.
CtmVar(name, readErr) ==
  [name |-> name, dims |-> <<2, 1, 3>>,
   data |-> IF name = "UAvg" THEN <<1, 1, 1, 1, 1, 1>> ELSE <<1, 1, 1, 2, 2, 2>>,
   readErr |-> readErr]

----------------------------------------------------------------------------
(* Readers of the grid. *)

\* c.mutex.RLock() and c.mutex.RUnlock() for the cell at heap position id.
RLock(m, id) == [m EXCEPT ![id].mutex = @ + 1]
RUnlock(m, id) == [m EXCEPT ![id].mutex = @ - 1]

\* Cell.getValue for a census column or a numeric field of the cell.
getValue(sc, c, varName) ==
  IF varName \in DOMAIN popIndices(sc) THEN c.PopData[popIndices(sc)[varName]]
  ELSE c[varName]

\* The loop of toArray; st = [i, mem, o] with i the 0-based position in
\* cells, and ret set when the loop is left by the return in its body.
RECURSIVE toArrayLoop(_, _, _, _, _)
toArrayLoop(sc, cells, varName, layer, st) ==
  IF st.i >= Len(cells) THEN st
  ELSE LET id == cells[st.i + 1]
       IN IF layer >= 0 /\ st.mem[id].Layer > layer
          THEN [st EXCEPT !.mem = RLock(st.mem, id), !.ret = TRUE]
          ELSE toArrayLoop(sc, cells, varName, layer,
                 [i |-> st.i + 1,
                  mem |-> RUnlock(RLock(st.mem, id), id),
                  o |-> IF layer < 0 \/ st.mem[id].Layer = layer
                        THEN Append(st.o, getValue(sc, st.mem[id], varName))
                        ELSE st.o,
                  ret |-> FALSE])

\* InMAP.toArray: [mem, o], the heap (with the locks) and the array returned.
toArray(sc, W, varName, layer) ==
  toArrayLoop(sc, W.d.cells, varName, layer,
              [i |-> 0, mem |-> W.mem, o |-> <<>>, ret |-> FALSE])

\* The loop of GetGeometry (webMap = false); st as in toArrayLoop.
RECURSIVE GetGeometryLoop(_, _, _)
GetGeometryLoop(cells, layer, st) ==
  IF st.i >= Len(cells) THEN st
  ELSE LET id == cells[st.i + 1]
       IN IF st.mem[id].Layer > layer
          THEN [st EXCEPT !.mem = RLock(st.mem, id), !.ret = TRUE]
          ELSE GetGeometryLoop(cells, layer,
                 [i |-> st.i + 1,
                  mem |-> RUnlock(RLock(st.mem, id), id),
                  o |-> IF st.mem[id].Layer = layer
                        THEN Append(st.o, st.mem[id].geom) ELSE st.o,
                  ret |-> FALSE])

\* InMAP.GetGeometry(layer, false).
GetGeometry(W, layer) ==
  GetGeometryLoop(W.d.cells, layer, [i |-> 0, mem |-> W.mem, o |-> <<>>, ret |-> FALSE])

----------------------------------------------------------------------------
(* The driver: Init, then Run, then Cleanup, then the readers of the       *)
(* results (Worker.Calculate has no CleanupFuncs and reads the geometry).  *)

\* A Run whose loop does not look at Done.
RunLoopCond_always(done) == TRUE
\* The loop condition of Run: for !d.Done.
RunLoopCond(done) == ~done

\* A Run that leaves the pass as soon as Done is true.
RunAfterEntry_break(i, n, done) == IF done \/ i >= n THEN 0 ELSE i + 1
\* Run, lines 103-107: after entry i of n returned nil, the next entry of
\* the pass, or 0 for the loop condition.
RunAfterEntry(i, n, done) == IF i < n THEN i + 1 ELSE 0

TheWorld == World(mem, arr, d)
CurList ==
  CASE pc.fn = "Init" -> InitFuncs(scn)
    [] pc.fn = "Cleanup" -> CleanupFuncs(scn)
    [] OTHER -> RunFuncs(scn)
AtEntry == pc.fn \in {"Init", "Run", "Cleanup"} /\ pc.i >= 1 /\ ~mg.active
CurEntry == CurList[pc.i]
CurFires == IF pc.fn = "Run" THEN Fires(CurEntry, timeSince[pc.i], d.Dt) ELSE TRUE

\* The position after the current entry returned nil.
ReturnNil(dd) ==
  CASE pc.fn = "Init" ->
         IF pc.i < Len(InitFuncs(scn)) THEN [pc EXCEPT !.i = @ + 1]
         ELSE [fn |-> "Run", i |-> 0, res |-> "none"]
    [] pc.fn = "Cleanup" ->
         IF pc.i < Len(CleanupFuncs(scn)) THEN [pc EXCEPT !.i = @ + 1]
         ELSE [fn |-> "exitCleanup", i |-> 0, res |-> "nil"]
    [] OTHER -> [pc EXCEPT !.i = RunAfterEntry(pc.i, Len(RunFuncs(scn)), dd.Done)]

\* A list loop that goes on with the next entry after an error.
ReturnErr_goOn(res) ==
  IF res = "error" THEN ReturnNil(d)
  ELSE [fn |-> "exit" \o pc.fn, i |-> pc.i, res |-> res]
\* The position after the current entry returned an error or panicked.
ReturnErr(res) == [fn |-> "exit" \o pc.fn, i |-> pc.i, res |-> res]

\* History: a call of a run-list entry that runs manipulator op ("" when a
\* RunPeriodically entry skips its function).
\* list, idx and ninv: the list and position of the entry invoked last and
\* the number of entries invoked so far, over the three lists.
Called(op) ==
  IF pc.fn = "Run"
  THEN [hist EXCEPT !.lastCall = pc.i, !.ncalls = @ + 1,
                    !.lastOp = IF op = "" THEN @ ELSE op,
                    !.mutated = @ \/ op = "MutateGrid",
                    !.cfl = @ \/ op = "SetTimestepCFL",
                    !.list = pc.fn, !.idx = pc.i, !.ninv = @ + 1]
  ELSE [hist EXCEPT !.lastOp = op, !.list = pc.fn, !.idx = pc.i, !.ninv = @ + 1]

\* History: Done becomes true, in pass hist.passes; doneDuring when a
\* run-list entry that is not the last of the list is executing.
DoneSet(h) ==
  [h EXCEPT !.donePass = h.passes,
            !.doneDuring = pc.fn = "Run" /\ mg.active /\ pc.i < Len(RunFuncs(scn))]

SetWorld(W) == mem' = W.mem /\ arr' = W.arr /\ d' = W.d

TickClosure ==
  timeSince' = IF pc.fn = "Run"
               THEN [timeSince EXCEPT ![pc.i] =
                       IF CurEntry.op # "RunPeriodically" THEN @
                       ELSE IF Fires(CurEntry, @, d.Dt) THEN [r |-> <<0, 1>>, q |-> <<0, 1>>]
                       ELSE AccAdd(@, d.Dt)]
               ELSE timeSince

InitDriver ==
  /\ scn \in {"dynamic", "static", "deep", "partial", "uncovered", "cfl"}
  /\ mem = <<>>
  /\ arr = <<>>
  /\ d = [cells |-> <<>>, Dt |-> RZero, nlayers |-> 0, Done |-> FALSE,
          westBoundary |-> <<>>, eastBoundary |-> <<>>, northBoundary |-> <<>>,
          southBoundary |-> <<>>, topBoundary |-> <<>>, index |-> {}]
  /\ pc = [fn |-> "Init", i |-> 1, res |-> "none"]
  /\ mg = [active |-> FALSE, rule |-> "", totalMass |-> QZero, totalPopulation |-> 0, rounds |-> 0]
  /\ timeSince = [i \in 1..Len(RunFuncs(scn)) |-> [r |-> <<0, 1>>, q |-> <<0, 1>>]]
  /\ hist = [passes |-> 0, lastCall |-> 0, ncalls |-> 0, lastOp |-> "",
             mutated |-> FALSE, cfl |-> FALSE, Dt0 |-> RZero, cells0 |-> {},
             mgCells |-> <<>>, mgIndex |-> {}, doneAtRun |-> FALSE,
             donePass |-> 0, doneDuring |-> FALSE,
             list |-> "", idx |-> 0, ninv |-> 0, failed |-> FALSE,
             read |-> <<>>]

\* The worker's CTM data are loaded already.
Init ==
  /\ InitDriver /\ load = [file |-> Nil, config |-> Nil, ret |-> Nil]
  /\ aim = Nil /\ wrf = Nil

\* RegularGrid.
CallRegularGrid ==
  /\ AtEntry /\ Target(CurEntry).op = "RegularGrid" /\ CurFires
  /\ \E r \in {RegularGrid(scn, TheWorld)} :
        /\ SetWorld(r.W)
        /\ pc' = IF r.err THEN ReturnErr("error") ELSE ReturnNil(r.W.d)
        /\ hist' = [Called("RegularGrid") EXCEPT !.failed = r.err]
  /\ TickClosure
  /\ UNCHANGED <<aim, wrf, load, scn, mg>>

\* SetTimestepCFL.
CallSetTimestepCFL ==
  /\ AtEntry /\ Target(CurEntry).op = "SetTimestepCFL" /\ CurFires
  /\ d' = [d EXCEPT !.Dt = SetTimestepCFL(scn, TheWorld)]
  /\ pc' = ReturnNil(d)
  /\ TickClosure
  /\ hist' = Called("SetTimestepCFL")
  /\ UNCHANGED <<aim, wrf, load, scn, mem, arr, mg>>

\* Calculations(AddEmissionsFlux()).
CallAddEmissionsFlux ==
  /\ AtEntry /\ Target(CurEntry).op = "AddEmissionsFlux" /\ CurFires
  /\ SetWorld(AddEmissionsFlux(TheWorld))
  /\ pc' = ReturnNil(d)
  /\ TickClosure
  /\ hist' = Called("AddEmissionsFlux")
  /\ UNCHANGED <<aim, wrf, load, scn, mg>>

\* Calculations(UpwindAdvection(), Mixing(), ...): the field stays as it is
\* or one cell takes up mass from a neighbor: a cell next to a cell n with a
\* higher concentration can rise to it, pollutant by pollutant.
CallScience ==
  /\ AtEntry /\ Target(CurEntry).op = "Science" /\ CurFires
  /\ \/ mem' = mem
     \/ \E id \in Range(d.cells) : \E n \in Range(d.cells) :
          /\ \E face \in {"west", "east", "south", "north", "above", "below"} :
                n \in Range(mem[id][face])
          /\ ~mem[n].boundary
          /\ \E p \in 1..NPol : QLess(mem[id].Cf[p], mem[n].Cf[p])
          /\ mem' = [mem EXCEPT ![id].Cf =
                       [p \in 1..NPol |-> IF QLess(@[p], mem[n].Cf[p]) THEN mem[n].Cf[p] ELSE @[p]]]
  /\ pc' = ReturnNil(d)
  /\ TickClosure
  /\ hist' = Called("Science")
  /\ UNCHANGED <<aim, wrf, load, scn, arr, d, mg>>

\* SteadyStateConvergenceCheck: sets Done when the run has converged.
CallConvergenceCheck ==
  /\ AtEntry /\ Target(CurEntry).op = "SteadyStateConvergenceCheck" /\ CurFires
  /\ \E converged \in BOOLEAN :
       /\ d' = [d EXCEPT !.Done = IF converged THEN TRUE ELSE @]
       /\ pc' = ReturnNil(d')
       /\ hist' = IF converged /\ ~d.Done
                  THEN DoneSet(Called("SteadyStateConvergenceCheck"))
                  ELSE Called("SteadyStateConvergenceCheck")
  /\ TickClosure
  /\ UNCHANGED <<aim, wrf, load, scn, mem, arr, mg>>

\* A RunPeriodically entry whose period has not passed returns nil without
\* running its function.
PeriodicSkip ==
  /\ AtEntry /\ ~CurFires
  /\ pc' = ReturnNil(d)
  /\ TickClosure
  /\ hist' = Called("")
  /\ UNCHANGED <<aim, wrf, load, scn, mem, arr, d, mg>>

\* MutateGrid, lines 402-417: the totals are computed and the loop begins.
CallMutateGrid ==
  /\ AtEntry /\ Target(CurEntry).op = "MutateGrid" /\ CurFires
  /\ mg' = [active |-> TRUE, rule |-> Target(CurEntry).rule,
            totalMass |-> totalMassOf(mem, d.cells),
            totalPopulation |-> totalPopulationOf(mem, d.cells,
                                  popIndices(scn)[config(scn).PopGridColumn]),
            rounds |-> 0]
  /\ TickClosure
  /\ hist' = [Called("MutateGrid") EXCEPT !.mgCells = d.cells, !.mgIndex = d.index]
  /\ UNCHANGED <<aim, wrf, load, scn, mem, arr, d, pc>>

\* MutateGrid, lines 418-450: one iteration of the loop; the iteration that
\* splits nothing leaves the loop, sorts the cells and returns nil.
MutateRound ==
  /\ mg.active
  /\ \E r \in {mutateRound(scn, mg.rule, TheWorld, mg.totalMass, mg.totalPopulation)} :
        IF r.err \/ r.panic
        THEN /\ SetWorld(r.W)
             /\ pc' = ReturnErr(IF r.err THEN "error" ELSE "panic")
             /\ mg' = [mg EXCEPT !.active = FALSE, !.rounds = @ + 1]
             /\ hist' = [hist EXCEPT !.failed = r.err]
        ELSE IF r.continueMutating
        THEN /\ SetWorld(r.W)
             /\ pc' = pc
             /\ mg' = [mg EXCEPT !.rounds = @ + 1]
             /\ hist' = hist
        ELSE IF sortPanics(r.W)
        THEN /\ SetWorld(r.W)
             /\ pc' = ReturnErr("panic")
             /\ mg' = [mg EXCEPT !.active = FALSE, !.rounds = @ + 1]
             /\ hist' = hist
        ELSE /\ SetWorld(sort(r.W))
             /\ pc' = ReturnNil(d)
             /\ mg' = [mg EXCEPT !.active = FALSE, !.rounds = @ + 1]
             /\ hist' = hist
  /\ UNCHANGED <<aim, wrf, load, scn, timeSince>>

\* Run, line 102: the loop condition; a pass starts or Run returns nil.
RunLoop ==
  /\ pc.fn = "Run" /\ pc.i = 0
  /\ IF RunLoopCond(d.Done)
     THEN /\ hist.passes < MaxPasses
          /\ pc' = [pc EXCEPT !.i = 1]
          /\ hist' = [hist EXCEPT !.passes = @ + 1, !.mutated = FALSE, !.cfl = FALSE,
                                  !.Dt0 = d.Dt, !.cells0 = Range(d.cells),
                                  !.doneAtRun = IF hist.passes = 0 THEN d.Done ELSE @]
     ELSE /\ pc' = [fn |-> "exitRun", i |-> 0, res |-> "nil"]
          /\ hist' = [hist EXCEPT !.doneAtRun = IF hist.passes = 0 THEN d.Done ELSE @]
  /\ UNCHANGED <<aim, wrf, load, scn, mem, arr, d, mg, timeSince>>

\* Cleanup is called after Run has returned nil.
CallCleanup ==
  /\ pc.fn = "exitRun" /\ pc.res = "nil"
  /\ pc' = IF Len(CleanupFuncs(scn)) > 0
           THEN [fn |-> "Cleanup", i |-> 1, res |-> "none"]
           ELSE [fn |-> "exitCleanup", i |-> 0, res |-> "nil"]
  /\ UNCHANGED <<aim, wrf, load, scn, mem, arr, d, mg, timeSince, hist>>

\* A reader calls toArray for a variable and a layer (all layers: -1).
CallToArray ==
  /\ pc.fn = "exitCleanup" /\ pc.res = "nil"
  /\ \E varName \in {"TotalPop", "Dz", "Layer"} : \E layer \in (-1)..(d.nlayers - 1) :
       \E r \in {toArray(scn, TheWorld, varName, layer)} :
          /\ mem' = r.mem
          /\ hist' = [hist EXCEPT !.read = <<"toArray", layer, r.ret, Len(r.o)>>]
  /\ pc' = [fn |-> "read", i |-> 0, res |-> "nil"]
  /\ UNCHANGED <<aim, wrf, load, scn, arr, d, mg, timeSince>>

\* Worker.Calculate, line 113: g := d.GetGeometry(0, false); any layer here.
CallGetGeometry ==
  /\ pc.fn = "read"
  /\ \E layer \in 0..(d.nlayers - 1) :
       \E r \in {GetGeometry(TheWorld, layer)} :
          /\ mem' = r.mem
          /\ hist' = [hist EXCEPT !.read = <<"GetGeometry", layer, r.ret, Len(r.o)>>]
  /\ pc' = [fn |-> "done", i |-> 0, res |-> "nil"]
  /\ UNCHANGED <<aim, wrf, load, scn, arr, d, mg, timeSince>>

\* External cancellation: Done is set from outside while Calculate runs.
ExternalCancel ==
  /\ pc.fn \in {"Init", "Run"}
  /\ ~d.Done
  /\ d' = [d EXCEPT !.Done = TRUE]
  /\ hist' = DoneSet(hist)
  /\ UNCHANGED <<aim, wrf, load, scn, mem, arr, pc, mg, timeSince>>

Next ==
  \/ CallRegularGrid
  \/ CallSetTimestepCFL
  \/ CallAddEmissionsFlux
  \/ CallScience
  \/ CallConvergenceCheck
  \/ PeriodicSkip
  \/ CallMutateGrid
  \/ MutateRound
  \/ RunLoop
  \/ CallCleanup
  \/ CallToArray
  \/ CallGetGeometry
  \/ ExternalCancel

Spec == Init /\ [][Next]_vars

----------------------------------------------------------------------------
(* The loader on its own: NewWorker hands a file to LoadCTMData. *)


\* NewWorker, line 143: s.CTMData, err = s.Config.LoadCTMData(f).
CallLoadCTMData ==
  /\ load.ret = Nil
  /\ \E r \in {LoadCTMData(load.config, load.file)} :
        load' = [load EXCEPT !.config = r.config, !.ret = [o |-> r.o, err |-> r.err, read |-> r.read]]
  /\ UNCHANGED <<aim, wrf, scn, mem, arr, d, pc, mg, timeSince, hist>>

\* The files the loader is given.
InitLoad ==
  /\ InitDriver /\ scn = "dynamic"
  /\ aim = Nil /\ wrf = Nil
  /\ load \in [ret : {Nil}, config : {config("dynamic")}, file :
       [opens : BOOLEAN, dx : {12, 16}, dy : {4}, nx : {3, 4}, ny : {1}, x0 : {0}, y0 : {0},
        data_version : {"1.2.0", "1.1.0", "1.2", ""}, nz : {2},
        vars : {<<CtmVar("UAvg", e)>> : e \in BOOLEAN}
                 \cup {<<CtmVar("UAvg", e[1]), CtmVar("Kzz", e[2])>> : e \in BOOLEAN \X BOOLEAN}]]

SpecLoad == InitLoad /\ [][CallLoadCTMData]_vars

----------------------------------------------------------------------------
(* AIMdata.SetupTimeStep of the earlier model (package aim) and the         *)
(* goroutines it starts.  aim = [pcm, lock, wg, Dt, workers, finalConc,     *)
(* initialConc, conc0, calls, lateWrite, otherDt, lost]: pcm is the         *)
(* position of the caller, lock whether arrayLock is held in write mode, wg *)
(* the WaitGroup counter, workers the addEmissionsFlux goroutines that have *)
(* not returned, conc0 the finalConc the running call found; lateWrite,     *)
(* otherDt and lost record what the goroutines did.                         *)

NProcs == 2
NCells == 2
MaxSetups == 2

InitAim ==
  /\ InitDriver /\ scn = "static"
  /\ load = [file |-> Nil, config |-> Nil, ret |-> Nil] /\ wrf = Nil
  /\ aim = [pcm |-> "idle", lock |-> FALSE, wg |-> 0, Dt |-> 0, workers |-> {},
            finalConc |-> [c \in 1..NCells |-> 0],
            initialConc |-> [c \in 1..NCells |-> 0],
            conc0 |-> [c \in 1..NCells |-> 0], calls |-> 0,
            lateWrite |-> FALSE, otherDt |-> FALSE, lost |-> FALSE]

\* Lines 313-331: Lock, wg.Add(nprocs * 4) and the setVelocities goroutines
\* of the cells and of the three boundaries; then wg.Wait().
SetupTimeStep_Lock ==
  /\ aim.pcm = "idle" /\ ~aim.lock /\ aim.calls < MaxSetups
  /\ aim' = [aim EXCEPT !.pcm = "wait", !.lock = TRUE, !.wg = NProcs * 4,
                        !.calls = @ + 1, !.conc0 = aim.finalConc]
  /\ UNCHANGED <<wrf, load, scn, mem, arr, d, pc, mg, timeSince, hist>>

\* setVelocities: a goroutine sets the velocities of its cells and returns
\* through the deferred wg.Done().
setVelocities ==
  /\ aim.wg > 0
  /\ aim' = [aim EXCEPT !.wg = @ - 1]
  /\ UNCHANGED <<wrf, load, scn, mem, arr, d, pc, mg, timeSince, hist>>

\* Lines 332-334: wg.Wait() returns and setTstep sets d.Dt from the
\* velocities drawn (one of two values here).
setTstep ==
  /\ aim.pcm = "wait" /\ aim.wg = 0
  /\ \E dt \in {1, 2} : aim' = [aim EXCEPT !.pcm = "go", !.Dt = dt]
  /\ UNCHANGED <<wrf, load, scn, mem, arr, d, pc, mg, timeSince, hist>>

\* Lines 335-337: go d.addEmissionsFlux(nprocs, procNum) for every procNum;
\* the WaitGroup is not handed to these goroutines.  A goroutine is
\* [call, ii, dt, line, rDt, rConc]: the call that started it and the Dt of
\* that call, its loop variable, the line it is at, and what it has loaded
\* for that line (-1: not yet).
SetupTimeStep_go ==
  /\ aim.pcm = "go"
  /\ aim' = [aim EXCEPT !.pcm = "unlock",
                        !.workers = @ \cup {[call |-> aim.calls, ii |-> procNum, dt |-> aim.Dt,
                                             line |-> 303, rDt |-> -1, rConc |-> -1] :
                                              procNum \in 0..(NProcs - 1)}]
  /\ UNCHANGED <<wrf, load, scn, mem, arr, d, pc, mg, timeSince, hist>>

\* Line 338: Unlock, and SetupTimeStep returns.
SetupTimeStep_Unlock ==
  /\ aim.pcm = "unlock"
  /\ aim' = [aim EXCEPT !.pcm = "idle", !.lock = FALSE]
  /\ UNCHANGED <<wrf, load, scn, mem, arr, d, pc, mg, timeSince, hist>>

\* AIMdata.addEmissionsFlux, lines 299-306, a step of goroutine w.  Line 303,
\* c.finalConc[i] += c.emisFlux[i] * d.Dt (emisFlux is 1 in every cell), is
\* a load of d.Dt and a load of finalConc, in either order, and then a
\* store; line 304, c.initialConc[i] = c.finalConc[i], is a load and a
\* store; none of them is synchronised.  The goroutine returns when ii
\* reaches len(d.Data).  lost: the store overwrites what another goroutine
\* stored since the load.
AIMaddEmissionsFlux(w) ==
  /\ w \in aim.workers
  /\ \/ /\ w.ii >= NCells
        /\ aim' = [aim EXCEPT !.workers = @ \ {w}]
     \/ /\ w.ii < NCells /\ w.line = 303 /\ w.rDt = -1
        /\ aim' = [aim EXCEPT !.workers = (@ \ {w}) \cup {[w EXCEPT !.rDt = aim.Dt]},
                              !.otherDt = @ \/ aim.Dt # w.dt]
     \/ /\ w.ii < NCells /\ w.rConc = -1
        /\ aim' = [aim EXCEPT !.workers = (@ \ {w}) \cup
                                            {[w EXCEPT !.rConc = aim.finalConc[w.ii + 1]]}]
     \/ /\ w.ii < NCells /\ w.line = 303 /\ w.rDt # -1 /\ w.rConc # -1
        /\ aim' = [aim EXCEPT
             !.workers = (@ \ {w}) \cup {[w EXCEPT !.line = 304, !.rDt = -1, !.rConc = -1]},
             !.finalConc[w.ii + 1] = w.rConc + w.rDt,
             !.lateWrite = @ \/ ~aim.lock,
             !.lost = @ \/ aim.finalConc[w.ii + 1] # w.rConc]
     \/ /\ w.ii < NCells /\ w.line = 304 /\ w.rConc # -1
        /\ aim' = [aim EXCEPT
             !.workers = (@ \ {w}) \cup {[w EXCEPT !.ii = @ + NProcs, !.line = 303, !.rConc = -1]},
             !.initialConc[w.ii + 1] = w.rConc,
             !.lateWrite = @ \/ ~aim.lock]
  /\ UNCHANGED <<wrf, load, scn, mem, arr, d, pc, mg, timeSince, hist>>

NextAim ==
  \/ SetupTimeStep_Lock
  \/ setVelocities
  \/ setTstep
  \/ SetupTimeStep_go
  \/ SetupTimeStep_Unlock
  \/ \E w \in aim.workers : AIMaddEmissionsFlux(w)

SpecAim == InitAim /\ [][NextAim]_vars

----------------------------------------------------------------------------
(* The channel pipeline of wrf2inmap.  main starts the accumulators of a    *)
(* pass, iterateTimeSteps hands the files to GOMAXPROCS processFile         *)
(* goroutines, each of which starts one reader goroutine per reader         *)
(* function and hour, and the readers send to the accumulators over         *)
(* unbuffered channels: a send and its receive are one step.  A data array  *)
(* is the number of the time step it was read from, (file - 1) * NHours +   *)
(* hour, and nil is -1.  Of the readers with one channel and the            *)
(* accumulators with one input kept here are U, V, W, PBLH and average in   *)
(* pass 1 and the gas and particle group of aVOC, T, CLDFRA and average in  *)
(* pass 2; the others have the same shape.                                  *)
(* wrf = [pass, main, k, workers, rd, acc, data, mixed, unordered]: main, k *)
(* are the place of main (k: the next file, the finished goroutines         *)
(* counted, or the next entry of MainOps), workers[w] = [st, f, h], rd[w][r]*)
(* the number of sends reader r of worker w has made, acc[a] = [in, out,    *)
(* sent, last] the arrays accumulator a holds of its current time step,     *)
(* whether it got nil, the results sent and (calcPartitioning) the first    *)
(* array of the step before; mixed and unordered record what the            *)
(* accumulators were given.                                                 *)

NFiles == 2
NHours == 2

\* The reader functions handed to iterateTimeSteps: the channels each one
\* sends its array to, in turn.
WrfReaders(pass) ==
  IF pass = 1
  THEN << <<"uAvgChan">>, <<"vAvgChan">>, <<"wAvgChan">>, <<"pblhChan">> >>
  ELSE << <<"aVOCchan">>, <<"aSOAchan">>, <<"Tchan">>, <<"qrainChan", "qrainChan2">>,
          <<"cloudFracChan">>, <<"altChanWetDep", "altChanMixing", "altChan">> >>

\* A windSpeed that looks for nil after its first receive.
WrfAccs_nilFirst(pass) ==
  IF pass = 1
  THEN << [name |-> "windSpeed", recv |-> <<"uAvgChan", "vAvgChan", "wAvgChan">>,
           nilAfter |-> 1,
           out |-> [i \in 1..7 |-> IF i <= 5 THEN "uAvgChan"
                                   ELSE IF i = 6 THEN "vAvgChan" ELSE "wAvgChan"]],
          [name |-> "average", recv |-> <<"pblhChan">>, nilAfter |-> 1,
           out |-> <<"pblhChan">>] >>
  ELSE << [name |-> "calcPartitioning", recv |-> <<"aVOCchan", "aSOAchan">>,
           nilAfter |-> 1, out |-> [i \in 1..3 |-> "aVOCchan"]],
          [name |-> "calcWetDeposition",
           recv |-> <<"qrainChan", "cloudFracChan", "altChanWetDep">>,
           nilAfter |-> 1, out |-> [i \in 1..3 |-> "qrainChan"]],
          [name |-> "StabilityMixingChemistry",
           recv |-> <<"Tchan", "altChanMixing", "qrainChan2">>,
           nilAfter |-> 1, out |-> [i \in 1..13 |-> "Tchan"]],
          [name |-> "average", recv |-> <<"altChan">>, nilAfter |-> 1,
           out |-> <<"altChan">>] >>
\* The accumulators main starts before a pass: the channels one receives
\* from for a time step, in turn; after how many receives it looks whether
\* the first array is nil; and the channels it then sends its results to.
WrfAccs(pass) ==
  IF pass = 1
  THEN << [name |-> "windSpeed", recv |-> <<"uAvgChan", "vAvgChan", "wAvgChan">>,
           nilAfter |-> 3,
           out |-> [i \in 1..7 |-> IF i <= 5 THEN "uAvgChan"
                                   ELSE IF i = 6 THEN "vAvgChan" ELSE "wAvgChan"]],
          [name |-> "average", recv |-> <<"pblhChan">>, nilAfter |-> 1,
           out |-> <<"pblhChan">>] >>
  ELSE << [name |-> "calcPartitioning", recv |-> <<"aVOCchan", "aSOAchan">>,
           nilAfter |-> 1, out |-> [i \in 1..3 |-> "aVOCchan"]],
          [name |-> "calcWetDeposition",
           recv |-> <<"qrainChan", "cloudFracChan", "altChanWetDep">>,
           nilAfter |-> 1, out |-> [i \in 1..3 |-> "qrainChan"]],
          [name |-> "StabilityMixingChemistry",
           recv |-> <<"Tchan", "altChanMixing", "qrainChan2">>,
           nilAfter |-> 1, out |-> [i \in 1..13 |-> "Tchan"]],
          [name |-> "average", recv |-> <<"altChan">>, nilAfter |-> 1,
           out |-> <<"altChan">>] >>

\* main after iterateTimeSteps: the nil it sends and the results it receives.
WrfMainOps(pass) ==
  IF pass = 1
  THEN << <<"send", "pblhChan">>, <<"send", "uAvgChan">>, <<"send", "vAvgChan">>,
          <<"send", "wAvgChan">>, <<"recv", "pblhChan">> >>
       \o [i \in 1..5 |-> <<"recv", "uAvgChan">>]
       \o << <<"recv", "vAvgChan">>, <<"recv", "wAvgChan">> >>
  ELSE << <<"send", "aVOCchan">> >> \o [i \in 1..3 |-> <<"recv", "aVOCchan">>]
       \o << <<"send", "Tchan">> >> \o [i \in 1..13 |-> <<"recv", "Tchan">>]
       \o << <<"send", "altChan">>, <<"recv", "altChan">> >>
       \o << <<"send", "qrainChan">> >> \o [i \in 1..3 |-> <<"recv", "qrainChan">>]

\* The goroutines of a pass as main and iterateTimeSteps start them.
WrfPass(pass, w) ==
  [w EXCEPT !.pass = pass, !.main = "files", !.k = 1,
            !.workers = [p \in 1..NProcs |-> [st |-> "idle", f |-> 0, h |-> 0]],
            !.rd = [p \in 1..NProcs |-> [r \in 1..Len(WrfReaders(pass)) |-> 0]],
            !.acc = [a \in 1..Len(WrfAccs(pass)) |->
                       [in |-> <<>>, out |-> FALSE, sent |-> 0, last |-> -1]]]

\* data: whether the arrays are told apart (else every array is 0).
InitWrf(data) ==
  /\ InitDriver /\ scn = "static"
  /\ load = [file |-> Nil, config |-> Nil, ret |-> Nil] /\ aim = Nil
  /\ wrf = WrfPass(1, [pass |-> 1, main |-> "files", k |-> 1, workers |-> <<>>,
                       rd |-> <<>>, acc |-> <<>>, data |-> data,
                       mixed |-> FALSE, unordered |-> FALSE])

\* Accumulator a receives x (the top of its loop): wrf after the receive.
\* It turns to its results when the first array is nil, and when it has
\* all arrays of the time step it adds them up and goes round.
WrfReceive(a, x) ==
  LET def == WrfAccs(wrf.pass)[a]
      in  == Append(wrf.acc[a].in, x)
  IN IF Len(in) = def.nilAfter /\ in[1] = -1
     THEN [wrf EXCEPT !.acc[a].in = <<>>, !.acc[a].out = TRUE]
     ELSE IF Len(in) < Len(def.recv)
     THEN [wrf EXCEPT !.acc[a].in = in]
     ELSE [wrf EXCEPT !.acc[a].in = <<>>,
                      !.acc[a].last = IF def.name = "calcPartitioning" /\ wrf.data
                                      THEN in[1] ELSE @,
                      !.mixed = @ \/ \E i \in 1..Len(in) : in[i] # in[1],
                      !.unordered = @ \/ (def.name = "calcPartitioning"
                                            /\ in[1] <= wrf.acc[a].last)]


\* iterateTimeSteps, line 482: filechan <- file, received by a processFile
\* goroutine at "for filename := range filechan", which starts the readers
\* of hour 0.
SendFile(p) ==
  /\ wrf.main = "files" /\ wrf.k <= NFiles /\ wrf.workers[p].st = "idle"
  /\ wrf' = [wrf EXCEPT !.k = @ + 1,
                        !.workers[p] = [st |-> "hour", f |-> wrf.k, h |-> 0],
                        !.rd[p] = [r \in DOMAIN @ |-> 0]]
  /\ UNCHANGED <<aim, load, scn, mem, arr, d, pc, mg, timeSince, hist>>

\* A reader: datachan <- data, received by the accumulator of the channel.
ReaderSend(p, r, a) ==
  /\ wrf.workers[p].st = "hour"
  /\ wrf.rd[p][r] < Len(WrfReaders(wrf.pass)[r])
  /\ ~wrf.acc[a].out
  /\ WrfAccs(wrf.pass)[a].recv[Len(wrf.acc[a].in) + 1] = WrfReaders(wrf.pass)[r][wrf.rd[p][r] + 1]
  /\ wrf' = [WrfReceive(a, IF wrf.data
                              THEN (wrf.workers[p].f - 1) * NHours + wrf.workers[p].h
                              ELSE 0)
               EXCEPT !.rd[p][r] = @ + 1]
  /\ UNCHANGED <<aim, load, scn, mem, arr, d, pc, mg, timeSince, hist>>

\* processFile, lines 505-512: wg.Wait() returns when the readers of the
\* hour are through; the next hour, or the next file.
HourDone(p) ==
  /\ wrf.workers[p].st = "hour"
  /\ \A r \in DOMAIN wrf.rd[p] : wrf.rd[p][r] = Len(WrfReaders(wrf.pass)[r])
  /\ wrf' = IF wrf.workers[p].h + 1 < NHours
            THEN [wrf EXCEPT !.workers[p].h = @ + 1, !.rd[p] = [r \in DOMAIN @ |-> 0]]
            ELSE [wrf EXCEPT !.workers[p].st = "idle"]
  /\ UNCHANGED <<aim, load, scn, mem, arr, d, pc, mg, timeSince, hist>>

\* iterateTimeSteps, line 484: close(filechan).
CloseFilechan ==
  /\ wrf.main = "files" /\ wrf.k > NFiles
  /\ wrf' = [wrf EXCEPT !.main = "finish", !.k = 0]
  /\ UNCHANGED <<aim, load, scn, mem, arr, d, pc, mg, timeSince, hist>>

\* processFile, line 516: finishchan <- tsteps, received at line 486; after
\* the last one iterateTimeSteps returns.
Finish(p) ==
  /\ wrf.main = "finish" /\ wrf.workers[p].st = "idle"
  /\ wrf' = [wrf EXCEPT !.workers[p].st = "done",
                        !.k = IF @ + 1 = NProcs THEN 1 ELSE @ + 1,
                        !.main = IF wrf.k + 1 = NProcs THEN "script" ELSE @]
  /\ UNCHANGED <<aim, load, scn, mem, arr, d, pc, mg, timeSince, hist>>

\* main: chan <- nil, received by the accumulator of the channel.
MainSendNil(a) ==
  /\ wrf.main = "script" /\ wrf.k <= Len(WrfMainOps(wrf.pass))
  /\ WrfMainOps(wrf.pass)[wrf.k][1] = "send"
  /\ ~wrf.acc[a].out
  /\ WrfAccs(wrf.pass)[a].recv[Len(wrf.acc[a].in) + 1] = WrfMainOps(wrf.pass)[wrf.k][2]
  /\ wrf' = [WrfReceive(a, -1) EXCEPT !.k = @ + 1]
  /\ UNCHANGED <<aim, load, scn, mem, arr, d, pc, mg, timeSince, hist>>

\* main: <-chan, sent by the accumulator whose next result goes to the
\* channel.
MainReceive(a) ==
  /\ wrf.main = "script" /\ wrf.k <= Len(WrfMainOps(wrf.pass))
  /\ WrfMainOps(wrf.pass)[wrf.k][1] = "recv"
  /\ wrf.acc[a].out /\ wrf.acc[a].sent < Len(WrfAccs(wrf.pass)[a].out)
  /\ WrfAccs(wrf.pass)[a].out[wrf.acc[a].sent + 1] = WrfMainOps(wrf.pass)[wrf.k][2]
  /\ wrf' = [wrf EXCEPT !.acc[a].sent = @ + 1, !.k = @ + 1]
  /\ UNCHANGED <<aim, load, scn, mem, arr, d, pc, mg, timeSince, hist>>

\* main has the results of the pass: it starts the second pass, or goes on
\* to write the file.
PassDone ==
  /\ wrf.main = "script" /\ wrf.k > Len(WrfMainOps(wrf.pass))
  /\ wrf' = IF wrf.pass = 1 THEN WrfPass(2, wrf) ELSE [wrf EXCEPT !.main = "write"]
  /\ UNCHANGED <<aim, load, scn, mem, arr, d, pc, mg, timeSince, hist>>

NextWrf ==
  \/ \E p \in 1..NProcs : SendFile(p)
  \/ \E p \in 1..NProcs : \E r \in DOMAIN wrf.rd[p] : \E a \in DOMAIN wrf.acc :
        ReaderSend(p, r, a)
  \/ \E p \in 1..NProcs : HourDone(p)
  \/ CloseFilechan
  \/ \E p \in 1..NProcs : Finish(p)
  \/ \E a \in DOMAIN wrf.acc : MainSendNil(a)
  \/ \E a \in DOMAIN wrf.acc : MainReceive(a)
  \/ PassDone

\* Some goroutine that can take a step takes one.
SpecWrf == InitWrf(TRUE) /\ [][NextWrf]_vars /\ WF_vars(NextWrf)

\* The pipeline with the data left out: who sends to whom and when does not
\* depend on the arrays, only on nil.
SpecWrfFlow == InitWrf(FALSE) /\ [][NextWrf]_vars /\ WF_vars(NextWrf)

----------------------------------------------------------------------------
(* Properties of the driver. *)

NumRunFuncs == Len(RunFuncs(scn))

\* A step that invokes an entry of RunFuncs.
Invokes == hist'.ncalls # hist.ncalls

\* C1: Run invokes the entries of RunFuncs in list order, pass after pass
\* (entry 1 first, each entry after its predecessor, entry 1 again after
\* the last); a pass starts only while Done is false; Run returns nil only
\* with Done true; and with Done true at the first look no entry is invoked.
C1_RunOrder ==
  [][ /\ Invokes => hist'.lastCall = (hist.lastCall % NumRunFuncs) + 1
      /\ hist'.passes # hist.passes => ~d.Done /\ hist.lastCall \in {0, NumRunFuncs}
      /\ (pc'.fn = "exitRun" /\ pc'.res = "nil") => d'.Done
      /\ hist'.doneAtRun => hist'.ncalls = 0 ]_vars

\* Run has made two full passes and returned nil.
C1_Witness ==
  /\ pc.fn = "exitRun" /\ pc.res = "nil"
  /\ hist.passes = 2 /\ hist.ncalls = 2 * NumRunFuncs /\ d.Done

\* C2 as stated: after Done was set while entry k of the run list was
\* executing, no later entry is invoked.
C2_ExitAtNextEntry == [][Invokes => ~hist.doneDuring]_vars

\* C2, amended: once Done is true no new pass starts, and Run returns nil
\* only at the end of a pass (or before the first): the entries that remain
\* in the pass are invoked with Done true.
C2_ExitAtPassEnd ==
  /\ (d.Done /\ pc.fn \in {"Run", "exitRun"}) => hist.passes = hist.donePass
  /\ (pc.fn = "exitRun" /\ pc.res = "nil") => hist.lastCall \in {0, NumRunFuncs}

\* Done was set while MutateGrid was executing, the entries after it were
\* invoked and Run returned nil at the end of the pass.
C2_Witness ==
  /\ hist.doneDuring /\ d.Done
  /\ pc.fn = "exitRun" /\ pc.res = "nil"
  /\ hist.lastCall = NumRunFuncs /\ hist.lastOp = "SteadyStateConvergenceCheck"

----------------------------------------------------------------------------
(* Properties of the grid mutation. *)

\* A step that is one iteration of the loop of MutateGrid.
MutateRoundStep == mg.active /\ mg'.rounds = mg.rounds + 1

\* A step with which MutateGrid returns nil, or an error.
MutateGridReturnsNil == mg.active /\ ~mg'.active /\ pc'.res = "none"
MutateGridReturnsErr == mg.active /\ ~mg'.active /\ pc'.res = "error"

Depth(c) == c.Index.n
Inside(g, h) == h.l <= g.l /\ g.r <= h.r /\ h.b <= g.b /\ g.u <= h.u

\* What divideRule says for a grid cell in the running call of MutateGrid.
RuleHolds(m, c) == divideRule(scn, mg.rule, m, c, mg.totalMass, mg.totalPopulation)
Splits(c) == Depth(c) < Len(config(scn).Xnests) /\ RuleHolds(mem, c)

\* The cells a step added in the layer and footprint of cell c.
ChildrenOf(c) ==
  {k \in d'.index \ d.index : mem'[k].Layer = c.Layer /\ Inside(mem'[k].geom, c.geom)}

RECURSIVE AreaOfCells(_, _)
AreaOfCells(m, S) ==
  IF S = {} THEN 0
  ELSE LET k == CHOOSE x \in S : TRUE IN Area(m[k].geom) + AreaOfCells(m, S \ {k})

\* The footprints of the cells S tile the footprint g.
Tiles(m, S, g) ==
  /\ \A k1, k2 \in S : k1 # k2 => IsectArea(m[k1].geom, m[k2].geom) = 0
  /\ AreaOfCells(m, S) = Area(g)

\* C3: an iteration of MutateGrid that completes removes every cell of
\* depth l < len(Xnests) for which divideRule holds and puts in its place
\* exactly Xnests[l]*Ynests[l] cells of its layer and depth l+1 whose
\* footprints tile its footprint; it keeps every other cell.
C3_Split ==
  [][ (MutateRoundStep /\ pc'.res = "none") =>
        \A id \in d.index :
          IF Splits(mem[id])
          THEN /\ id \notin d'.index
               /\ Cardinality(ChildrenOf(mem[id])) = NumChildren(config(scn), Depth(mem[id]))
               /\ \A k \in ChildrenOf(mem[id]) : Depth(mem'[k]) = Depth(mem[id]) + 1
               /\ Tiles(mem', ChildrenOf(mem[id]), mem[id].geom)
          ELSE id \in d'.index ]_vars

\* C4: every cell made by a split starts with the Cf of the cell it replaces.
C4_ChildrenInheritCf ==
  [][ (MutateRoundStep /\ pc'.res = "none") =>
        \A id \in d.index \ d'.index : \A k \in ChildrenOf(mem[id]) :
           mem'[k].Cf = mem[id].Cf ]_vars

\* The cells of the grid with the parent index, layer and depth of cell id.
Siblings(m, a, dd, id) ==
  {k \in dd.index :
     /\ m[k].Layer = m[id].Layer /\ Depth(m[k]) = Depth(m[id])
     /\ SubSeq(IndexOf(a, m[k].Index), 1, Depth(m[k]) - 1)
          = SubSeq(IndexOf(a, m[id].Index), 1, Depth(m[id]) - 1)}

\* C5: when MutateGrid returns nil, no full group of siblings below nest
\* depth 1 is left in which every cell fails divideRule: such groups have
\* been replaced by their parent.
C5_Combine ==
  [][ MutateGridReturnsNil =>
        \A id \in d'.index :
          (/\ Depth(mem'[id]) > 1
           /\ Cardinality(Siblings(mem', arr', d', id))
                = NumChildren(config(scn), Depth(mem'[id]) - 1))
          => \E k \in Siblings(mem', arr', d', id) : RuleHolds(mem', mem'[k]) ]_vars

\* C6: when MutateGrid returns an error, the cell list and the spatial
\* index are what they were when it was called.
C6_Atomic ==
  [][ MutateGridReturnsErr => d'.cells = hist.mgCells /\ d'.index = hist.mgIndex ]_vars

----------------------------------------------------------------------------
(* Properties of the time step. *)

\* C7: with the run list of the worker, a pass that has invoked MutateGrid
\* has invoked SetTimestepCFL too when it ends (before the next physics
\* pass), and a step of Run changes Dt only in a pass that has changed the
\* set of grid cells.
C7_DtFollowsGrid ==
  [][ /\ (pc'.fn = "Run" /\ pc'.i = 0 /\ hist'.mutated) => hist'.cfl
      /\ (pc.fn = "Run" /\ d'.Dt # d.Dt) =>
            hist'.mutated /\ Range(d'.cells) # hist'.cells0 ]_vars

\* A pass of Run has split cells and set a new Dt.
C7_Witness ==
  /\ pc.fn = "Run" /\ pc.i = 0
  /\ hist.mutated /\ hist.cfl
  /\ Range(d.cells) # hist.cells0 /\ d.Dt # hist.Dt0

\* The limits dt1..dt4 of all grid cells.
AllLimits(m, dd, den) ==
  UNION {{dt1(m[id], den), dt2(m[id], den), dt3(m[id], den), dt4(m[id], den)} :
           id \in Range(dd.cells)}

\* C8: SetTimestepCFL on a grid with cells sets Dt to the least of the
\* limits dt1..dt4 of all cells, whatever Dt was: Dt is one of the limits,
\* none of them is below it, and it is above zero.
C8_MinOverCells ==
  [][ (CallSetTimestepCFL /\ d.cells # <<>>) =>
        /\ d'.Dt \in AllLimits(mem, d, ctmdata(scn).den)
        /\ \A x \in AllLimits(mem, d, ctmdata(scn).den) : ~RLess(x, d'.Dt)
        /\ RLess(RZero, d'.Dt) ]_vars

\* SetTimestepCFL ran in a pass of Run, on a refined grid, and raised or
\* lowered Dt.
C8_Witness ==
  /\ hist.lastOp = "SetTimestepCFL" /\ pc.fn = "Run" /\ hist.cfl
  /\ d.Dt # hist.Dt0 /\ RLess(RZero, d.Dt)

----------------------------------------------------------------------------
(* Properties of the division rules. *)

\* The rule of C9 for one cell.
C9Rule(c) ==
  /\ c.Layer < config(scn).HiResLayers
  /\ \/ c.AboveDensityThreshold
     \/ c.PopData[popIndices(scn)[config(scn).PopGridColumn]] > config(scn).PopThreshold

\* Totals to hand to a rule.
SomeTotals == {0, 1, mg.totalPopulation}
SomeMasses == {QZero, QScale(QOfTime([n |-> 1, d |-> 1, s |-> 1]), 2), mg.totalMass}

\* C9: PopulationMutator holds for a cell exactly when its layer is below
\* HiResLayers and it is above the density threshold or its population is
\* above PopThreshold, for any totals; so an iteration of MutateGrid with
\* this rule removes exactly the cells below the deepest nest with that.
C9_PopulationMutator ==
  [][ (MutateRoundStep /\ mg.rule = "PopulationMutator") =>
        \A id \in d.index :
          /\ \A tm \in SomeMasses, tp \in SomeTotals :
               PopulationMutator(scn, mem[id], tm, tp) <=> C9Rule(mem[id])
          /\ id \notin d'.index <=>
               (Depth(mem[id]) < Len(config(scn).Xnests) /\ C9Rule(mem[id])) ]_vars

\* MutateGrid with PopulationMutator has split a cell, kept a populous cell
\* above HiResLayers and kept a ground cell below the thresholds.
C9_Witness ==
  /\ mg.rule = "PopulationMutator" /\ mg.rounds >= 1
  /\ \E id \in d.index : Depth(mem[id]) > 1
  /\ \E id \in d.index :
       /\ mem[id].Layer >= config(scn).HiResLayers
       /\ mem[id].PopData[popIndices(scn)[config(scn).PopGridColumn]] > config(scn).PopThreshold
  /\ \E id \in d.index : mem[id].Layer = 0 /\ ~C9Rule(mem[id])

\* The sum over all grid cells of the absolute pollutant mass.
RECURSIVE AbsMassOf(_, _)
AbsMassOf(m, cells) ==
  IF cells = <<>> THEN QZero
  ELSE QAdd(QScale(QSum([p \in 1..NPol |->
                           QScale(m[Head(cells)].Cf[p], QSign(m[Head(cells)].Cf[p]))]),
                   m[Head(cells)].Volume),
            AbsMassOf(m, Tail(cells)))

\* The rule of C10 for one cell, with the totals of the grid dd.
C10Rule(m, dd, c) ==
  LET iPop == popIndices(scn)[config(scn).PopGridColumn]
      tm   == AbsMassOf(m, dd.cells)
      tp   == totalPopulationOf(m, dd.cells, iPop)
      thr  == config(scn).PopConcThreshold
  IN \E face \in {"west", "east", "north", "south"} :
       \E k \in 1..Len(c[face]) :
          LET n == m[c[face][k]]
              v == QScale(SumAbsDiff(n.Cf, c.Cf),
                          (c.Volume + n.Volume) * Abs(c.PopData[iPop] - n.PopData[iPop]))
          IN /\ QSign(QScale(tm, tp)) > 0
             /\ QLessScaled(QScale(tm, tp), thr[1], v, thr[2])

\* C10: an iteration of MutateGrid with PopConcMutator removes exactly the
\* cells below the deepest nest that have a horizontal neighbor with
\* sum|dCf| * (V + Vn) * |dPop| / (totalMass * totalPopulation) > threshold,
\* totalMass and totalPopulation being the sums over the grid of that
\* iteration.
C10_PopConcMutator ==
  [][ (MutateRoundStep /\ mg.rule = "PopConcMutator") =>
        \A id \in d.index :
          id \notin d'.index <=>
            (Depth(mem[id]) < Len(config(scn).Xnests) /\ C10Rule(mem, d, mem[id])) ]_vars

----------------------------------------------------------------------------
(* Properties of the neighbor lists. *)

\* The grid cells of the heap m and struct dd whose lists mention cell id.
Mentions(m, dd, id) ==
  {n \in dd.index : \E i \in 1..Len(Faces) : id \in Range(m[n][Faces[i]])}

\* The positions in d.cells the sweep of the running iteration of
\* MutateGrid hands to DeleteCells.
ToDelete ==
  sweep(scn, mg.rule, TheWorld, mg.totalMass, mg.totalPopulation,
        [i |-> 0, arr |-> arr, newCellIndices |-> <<>>, newCellLayers |-> <<>>,
         indicesToDelete |-> <<>>, continueMutating |-> FALSE]).indicesToDelete

\* No grid cell of world W lists one of the cells ids, and none of them is
\* in the cell list or the spatial index.
Dereferenced(W, ids) ==
  \A id \in ids :
     /\ Mentions(W.mem, W.d, id) = {}
     /\ id \notin W.d.index /\ id \notin Range(W.d.cells)

\* C11: in every iteration of MutateGrid, when DeleteCells returns, the
\* cells it deleted are in no neighbor list, of any face, of a cell that is
\* left in the grid; and that is still so when the iteration ends, whether
\* it succeeds or fails.
C11_NoDeletedNeighbors ==
  [][ MutateRoundStep =>
        /\ Dereferenced(DeleteCells(TheWorld, ToDelete),
                        {d.cells[ToDelete[k] + 1] : k \in 1..Len(ToDelete)})
        /\ d.index \ d'.index = {d.cells[ToDelete[k] + 1] : k \in 1..Len(ToDelete)}
        /\ Dereferenced(World(mem', arr', d'), d.index \ d'.index) ]_vars

\* MutateGrid has deleted a cell x that had the cell n, which is still in
\* the grid, on its west or east face (so n had x in its list).
C11_Witness ==
  /\ mg.rounds >= 1
  /\ \E x \in hist.mgIndex \ d.index : \E n \in hist.mgIndex \cap d.index :
        n \in Range(mem[x].west) \cup Range(mem[x].east)

----------------------------------------------------------------------------
(* Properties of the nest indices. *)

\* C14: every grid cell has a nest index of length 1..len(Xnests) (and
\* len(Ynests)), in every state, iterations of MutateGrid included.
C14_NestDepth ==
  \A id \in Range(d.cells) \cup d.index :
     /\ 1 <= Depth(mem[id])
     /\ Depth(mem[id]) <= Len(config(scn).Xnests)
     /\ Depth(mem[id]) <= Len(config(scn).Ynests)
     /\ Len(IndexOf(arr, mem[id].Index)) = Depth(mem[id])

\* An iteration of MutateGrid has run over a grid with cells of depth 1 and
\* cells of the deepest nest for which the rule holds, and has kept those.
C14_Witness ==
  /\ mg.rule = "PopulationMutator" /\ mg.rounds >= Len(config(scn).Xnests)
  /\ \E id \in d.index : Depth(mem[id]) = 1
  /\ \E id \in d.index :
        /\ Depth(mem[id]) = Len(config(scn).Xnests)
        /\ PopulationMutator(scn, mem[id], mg.totalMass, mg.totalPopulation)

----------------------------------------------------------------------------
(* Properties of the boundary cells. *)

\* A boundary cell: flagged, without concentrations or emissions, and
\* without neighbors.
IsBoundaryCell(c) ==
  /\ c.boundary
  /\ c.Ci = ZeroConc /\ c.Cf = ZeroConc /\ c.EmisFlux = [p \in 1..NPol |-> <<0, 1>>]
  /\ \A i \in 1..Len(Faces) : c[Faces[i]] = <<>>

\* What a call add<Face>Boundary(cell id) does to the world W: W2 has one
\* more cell, a boundary cell, at the end of the collection of the face and
\* as the only entry of the list of cell id for the face; nothing else
\* changes.
AddsOneBoundary(W, W2, id, face) ==
  LET b == Len(W.mem) + 1
  IN /\ Len(W2.mem) = b
     /\ IsBoundaryCell(W2.mem[b])
     /\ W2.d = [W.d EXCEPT ![Collection(face)] = Append(@, b)]
     /\ W2.mem[id] = [W.mem[id] EXCEPT ![face] = <<b>>]
     /\ \A k \in 1..Len(W.mem) : k # id => W2.mem[k] = W.mem[k]

\* C15: every cell of the five boundary collections is a boundary cell, and
\* a call of addWestBoundary, addEastBoundary, addSouthBoundary,
\* addNorthBoundary or addTopBoundary for any grid cell makes exactly one.
C15_BoundaryCells ==
  /\ \A face \in BoundaryFaces : \A b \in Range(d[Collection(face)]) :
        IsBoundaryCell(mem[b])
  /\ \A face \in BoundaryFaces : \A id \in d.index :
        AddsOneBoundary(TheWorld, addBoundary(TheWorld, id, face), id, face)

\* All five collections hold cells, and a grid cell that carries pollutant
\* has a boundary cell on a face.
C15_Witness ==
  /\ \A face \in BoundaryFaces : d[Collection(face)] # <<>>
  /\ \E id \in d.index : \E face \in BoundaryFaces :
        /\ mem[id].Cf # ZeroConc
        /\ IsBoundaryList(TheWorld, mem[id][face])
        /\ mem[id][face][1] \in Range(d[Collection(face)])

----------------------------------------------------------------------------
(* Properties of the population. *)

\* The sum of PopData[col] over the cells S of the heap m.
RECURSIVE PopOfCells(_, _, _)
PopOfCells(m, S, col) ==
  IF S = {} THEN 0
  ELSE LET k == CHOOSE x \in S : TRUE
       IN m[k].PopData[col] + PopOfCells(m, S \ {k}, col)

\* C16: in an iteration of MutateGrid that completes, the cells put in the
\* place of a split cell hold together, in every census column, the
\* population of the split cell.
C16_PopulationConserved ==
  [][ (MutateRoundStep /\ pc'.res = "none") =>
        \A id \in d.index \ d'.index :
           \A col \in 1..Len(config(scn).CensusPopColumns) :
              PopOfCells(mem', ChildrenOf(mem[id]), col) = mem[id].PopData[col] ]_vars

----------------------------------------------------------------------------
(* Properties of the cell geometry. *)

\* The product of nests over the 0-based levels from..to (1 when empty).
RECURSIVE NestProduct(_, _, _)
NestProduct(nests, from, to) ==
  IF to < from THEN 1 ELSE nests[to + 1] * NestProduct(nests, from, to - 1)

\* For the index components xs of levels 0..n-1 and the outer spacing D:
\* the sum over i of xs_i * D / (nests_first * .. * nests_i), multiplied by
\* nests_first * .. * nests_(n-1) to stay in the integers.
RECURSIVE PathSum(_, _, _, _)
PathSum(xs, D, nests, i) ==
  IF i < 0 THEN 0
  ELSE xs[i + 1] * D * NestProduct(nests, i + 1, Len(xs) - 1)
       + PathSum(xs, D, nests, i - 1)

\* edge = origin + sum over i of xs_i * D / (nests_first * .. * nests_i).
EdgeFormula(edge, origin, xs, D, nests, first) ==
  LET P == NestProduct(nests, first, Len(xs) - 1)
  IN edge * P = origin * P + PathSum(xs, D, nests, Len(xs) - 1)

\* The x and the y components of the nest index of cell c.
PathX(c) == [i \in 1..Depth(c) |-> IndexOf(arr, c.Index)[i][1]]
PathY(c) == [i \in 1..Depth(c) |-> IndexOf(arr, c.Index)[i][2]]

\* C20 as stated: the left and bottom edge of every grid cell follow the
\* formula with the products taken from Xnests[0] and Ynests[0] on.
C20_EdgesFromOuterNest ==
  \A id \in d.index :
     /\ EdgeFormula(mem[id].geom.l, config(scn).VariableGridXo, PathX(mem[id]),
                    config(scn).VariableGridDx, config(scn).Xnests, 0)
     /\ EdgeFormula(mem[id].geom.b, config(scn).VariableGridYo, PathY(mem[id]),
                    config(scn).VariableGridDy, config(scn).Ynests, 0)

\* C20, amended: the left and bottom edge of every grid cell follow the
\* formula with the products taken from Xnests[1] and Ynests[1] on (the
\* offset of the outer level is not divided), and the cell is as wide and
\* as high as the outer spacing divided by the product over all its levels.
C20_EdgesFromFirstNest ==
  \A id \in d.index :
     /\ EdgeFormula(mem[id].geom.l, config(scn).VariableGridXo, PathX(mem[id]),
                    config(scn).VariableGridDx, config(scn).Xnests, 1)
     /\ EdgeFormula(mem[id].geom.b, config(scn).VariableGridYo, PathY(mem[id]),
                    config(scn).VariableGridDy, config(scn).Ynests, 1)
     /\ (mem[id].geom.r - mem[id].geom.l)
          * NestProduct(config(scn).Xnests, 1, Depth(mem[id]) - 1)
          = config(scn).VariableGridDx
     /\ (mem[id].geom.u - mem[id].geom.b)
          * NestProduct(config(scn).Ynests, 1, Depth(mem[id]) - 1)
          = config(scn).VariableGridDy

\* The grid holds a cell of depth 3 or more that is off the origin at the
\* outer level in x and at a nested level in y, and one that is off the
\* origin at two nested levels in x.
C20_Witness ==
  /\ \E id \in d.index :
        /\ Depth(mem[id]) >= 3
        /\ PathX(mem[id])[1] > 0 /\ PathY(mem[id])[3] > 0
  /\ \E id \in d.index :
        /\ Depth(mem[id]) >= 3
        /\ PathX(mem[id])[2] > 0 /\ PathX(mem[id])[3] > 0

----------------------------------------------------------------------------
(* The CFL scenario. *)

\* Every grid cell has Dx = Dy = 12000 m, Dz = 50 m, U = V = 5 m/s, W = 0,
\* Kzz = 10 m2/s and Kxxyy = 50 m2/s.  Lengths are in units of 50 m and
\* rates are numerators over den: 12000 m = 240, 5 m/s = 1/10 per second,
\* 10 m2/s = 1/250 and 50 m2/s = 1/50 per second.
CflGrid(m, dd, den) ==
  /\ scn = "cfl" /\ dd.cells # <<>>
  /\ \A id \in Range(dd.cells) :
        /\ m[id].Dx = 240 /\ m[id].Dy = 240 /\ m[id].Dz = 1
        /\ 10 * m[id].UAvg = den /\ 10 * m[id].VAvg = den /\ m[id].WAvg = 0
        /\ 250 * m[id].Kzz = den /\ 50 * m[id].Kxxyy = den

\* C19 as stated: on such a grid SetTimestepCFL sets
\* Dt = 1/sqrt(3) / (5/12000*2) = 1200/sqrt(3) s, about 692.8 s.
C19_AdvectionLimit ==
  [][ (CallSetTimestepCFL /\ CflGrid(mem, d, ctmdata(scn).den)) =>
        d'.Dt = [n |-> 1200, d |-> 1, s |-> 1] ]_vars

\* C19, amended: on such a grid SetTimestepCFL sets Dt = 50*50/(2*10) =
\* 125 s, the vertical diffusion limit, which is below the advection limit.
C19_DiffusionLimit ==
  [][ (CallSetTimestepCFL /\ CflGrid(mem, d, ctmdata(scn).den)) =>
        /\ d'.Dt = [n |-> 125, d |-> 1, s |-> 0]
        /\ \A id \in Range(d.cells) :
              /\ RLess(d'.Dt, dt1(mem[id], ctmdata(scn).den))
              /\ ~RLess([n |-> 1200, d |-> 1, s |-> 1], dt1(mem[id], ctmdata(scn).den)) ]_vars

\* SetTimestepCFL has run on the grid of the CFL scenario, whose cells have
\* the advection limit 1200/sqrt(3) s.
C19_Witness ==
  /\ CflGrid(mem, d, ctmdata(scn).den)
  /\ hist.lastOp = "SetTimestepCFL"
  /\ \A id \in Range(d.cells) :
        dt1(mem[id], ctmdata(scn).den) = [n |-> 1200, d |-> 1, s |-> 1]

----------------------------------------------------------------------------
(* Properties of the driver's lists. *)

ListNamed(name) ==
  CASE name = "Init" -> InitFuncs(scn)
    [] name = "Run" -> RunFuncs(scn)
    [] name = "Cleanup" -> CleanupFuncs(scn)
    [] OTHER -> <<>>

\* The step invokes an entry of a list.
InvokesEntry == hist'.ninv = hist.ninv + 1
\* The step makes Init, Run or Cleanup return.
Returns(res) ==
  /\ pc.fn \in {"Init", "Run", "Cleanup"}
  /\ \/ pc'.fn = "exit" \o pc.fn /\ pc'.res = res
     \/ pc.fn = "Init" /\ pc'.fn = "Run" /\ res = "nil"

\* The entry invoked next follows the entry invoked last: the next of the
\* same list (the first again in Run's loop), or the first of a later list
\* once the list before has been gone through (Run invokes nothing when Done
\* is set before its first pass).
InListOrder ==
  IF hist'.list = hist.list
  THEN \/ hist'.idx = hist.idx + 1
       \/ hist.list = "Run" /\ hist.idx = Len(RunFuncs(scn)) /\ hist'.idx = 1
  ELSE /\ hist'.idx = 1
       /\ hist.idx = Len(ListNamed(hist.list))
       /\ <<hist.list, hist'.list>> \in
            {<<"", "Init">>, <<"Init", "Run">>, <<"Run", "Cleanup">>,
             <<"Init", "Cleanup">>}

\* C18: Init, Run and Cleanup invoke the functions of their lists in list
\* order; no function is invoked after one has returned an error; the error
\* is returned at once, by the list whose entry failed and at that entry; and
\* nil is returned only if no invoked function has failed and, for Init and
\* Cleanup, the whole list has been invoked.
C18_ListsInOrder ==
  [][ /\ InvokesEntry => (~hist.failed /\ InListOrder /\ hist'.list = pc.fn /\ hist'.idx = pc.i)
      /\ (hist'.failed /\ ~hist.failed) =>
            (Returns("error") /\ pc'.fn = "exit" \o hist'.list /\ pc'.i = hist'.idx)
      /\ Returns("error") => (hist'.failed /\ ~hist.failed)
      /\ Returns("nil") =>
            /\ ~hist'.failed
            /\ pc.fn \in {"Init", "Cleanup"} =>
                   (hist'.list = pc.fn /\ hist'.idx = Len(ListNamed(pc.fn))) ]_vars

\* Init and Run have gone through their lists and returned nil, and Cleanup
\* has returned the error of its first entry without invoking its second.
C18_Witness ==
  /\ pc = [fn |-> "exitCleanup", i |-> 1, res |-> "error"]
  /\ Len(CleanupFuncs(scn)) = 2
  /\ hist.failed /\ hist.list = "Cleanup" /\ hist.idx = 1
  /\ hist.ninv > Len(InitFuncs(scn)) + 1

----------------------------------------------------------------------------
(* Properties of the readers. *)

\* C12: toArray and GetGeometry match every RLock on a cell's mutex by an
\* RUnlock on every return path, so that when they return no cell holds a
\* read lock of theirs (a writer's Lock is not blocked).
C12_ReadersReleaseLocks ==
  [][ (CallToArray \/ CallGetGeometry) =>
        \A id \in Range(d.cells) : mem'[id].mutex = mem[id].mutex ]_vars

\* The return paths at the end of the loop do release every lock.
C12_LoopEndReleases ==
  [][ ((CallToArray \/ CallGetGeometry) /\ ~hist'.read[3]) =>
        \A id \in Range(d.cells) : mem'[id].mutex = mem[id].mutex ]_vars

----------------------------------------------------------------------------
(* Properties of the emissions pass. *)

\* The real x is flux times the time step t = n/(d*sqrt(3)^s).
IsFluxTimesDt(x, flux, t) ==
  IF t.s = 0 THEN x.b = 0 /\ x.a * t.d * flux[2] = flux[1] * t.n * x.d
  ELSE x.a = 0 /\ 3 * x.b * t.d * flux[2] = flux[1] * t.n * x.d

\* The pass as the specification words it, one cell after the other with
\* one Dt (the manipulator the worker calls): Cf[p] of every grid cell grows
\* by exactly EmisFlux[p] * Dt and Ci[p] = Cf[p] is left, so Ci = Cf in every
\* grid cell when the operator chain after it starts.
C13_SequentialPass ==
  [][ /\ CallAddEmissionsFlux =>
           \A id \in Range(d.cells) : \A p \in 1..NPol :
              /\ IsFluxTimesDt(QSub(mem'[id].Cf[p], mem[id].Cf[p]),
                               mem[id].EmisFlux[p], d.Dt)
              /\ mem'[id].Ci[p] = mem'[id].Cf[p]
              /\ mem'[id].EmisFlux = mem[id].EmisFlux
      /\ CallScience => \A id \in Range(d.cells) : mem[id].Ci = mem[id].Cf ]_vars

\* C13: when the emissions pass of SetupTimeStep is over (the call returns
\* and the operators that follow start), finalConc of every cell has grown
\* by exactly emisFlux * Dt (emisFlux is 1) since the call began, and
\* initialConc equals finalConc.
C13_EmissionsAdded ==
  [][ SetupTimeStep_Unlock =>
        \A c \in 1..NCells :
           /\ aim'.finalConc[c] = aim.conc0[c] + aim.Dt
           /\ aim'.initialConc[c] = aim'.finalConc[c] ]_vars

\* A single call of SetupTimeStep whose goroutines are left to return has
\* added emisFlux * Dt to every cell and left initialConc = finalConc.
C13_SingleCall ==
  (aim # Nil /\ aim.calls = 1 /\ aim.pcm = "idle" /\ aim.workers = {}) =>
     \A c \in 1..NCells : aim.finalConc[c] = aim.Dt /\ aim.initialConc[c] = aim.Dt

----------------------------------------------------------------------------
(* Properties of the loader. *)

\* C17: for a file whose data_version attribute differs from
\* InMAPDataVersion, LoadCTMData returns a non-nil error and a nil CTMData
\* and reads no CTM variable.
C17_VersionMismatch ==
  [][ (CallLoadCTMData /\ load.file.opens
         /\ load.file.data_version # InMAPDataVersion) =>
        /\ load'.ret.err # Nil
        /\ load'.ret.o = Nil
        /\ load'.ret.read = <<>> ]_vars

\* A file with two readable variables and version 1.1.0 has been refused,
\* after its grid attributes were written to the config.
C17_Witness ==
  /\ load.ret # Nil
  /\ load.file.opens /\ load.file.data_version = "1.1.0"
  /\ load.file.vars = <<CtmVar("UAvg", FALSE), CtmVar("Kzz", FALSE)>>
  /\ load.ret.err = [msg |-> "data version"] /\ load.ret.o = Nil
  /\ load.config.ctmGridDx = 12 /\ load.file.dx = 12

\* With the required version the same file is loaded and both variables
\* are read.
C17_Loaded ==
  /\ load.ret # Nil
  /\ load.file.opens /\ load.file.data_version = InMAPDataVersion
  /\ load.file.vars = <<CtmVar("UAvg", FALSE), CtmVar("Kzz", FALSE)>>
  /\ load.ret.err = Nil /\ load.ret.read = <<"UAvg", "Kzz">>
  /\ load.ret.o.data["Kzz"].data = <<1, 1, 1, 2, 2, 2>>

----------------------------------------------------------------------------
(* Properties of the nest indices of the children. *)

\* The Index a child of a cell with Index idx gets for each pair (ii, jj).
ChildIndices(idx) ==
  {Append(idx, <<ii, jj>>) : ii \in 0..(config(scn).Xnests[Len(idx) + 1] - 1),
                            jj \in 0..(config(scn).Ynests[Len(idx) + 1] - 1)}

\* C21: an iteration of MutateGrid gives the children of every cell it
\* splits pairwise distinct Index values, the parent's Index followed by one
\* pair (ii, jj) each, whatever the capacity of the parent's slice; and no
\* two grid cells of the same layer share an Index.
C21_ChildIndices ==
  [][ (MutateRoundStep /\ pc'.res = "none") =>
        /\ \A id \in d.index :
              Splits(mem[id]) =>
                {IndexOf(arr', mem'[k].Index) : k \in ChildrenOf(mem[id])}
                   = ChildIndices(IndexOf(arr, mem[id].Index))
        /\ \A k1, k2 \in d'.index :
              (k1 # k2 /\ mem'[k1].Layer = mem'[k2].Layer) =>
                 IndexOf(arr', mem'[k1].Index) # IndexOf(arr', mem'[k2].Index) ]_vars

\* The same for the parents whose Index slice is full (length = capacity):
\* for them append copies, and the children get the indices meant.
C21_FullSlices ==
  [][ (MutateRoundStep /\ pc'.res = "none") =>
        \A id \in d.index :
          (Splits(mem[id]) /\ mem[id].Index.n = arr[mem[id].Index.a].cap) =>
             {IndexOf(arr', mem'[k].Index) : k \in ChildrenOf(mem[id])}
                = ChildIndices(IndexOf(arr, mem[id].Index)) ]_vars


----------------------------------------------------------------------------
(* The emissions loop of deleteAndAddCells. *)

\* The result of the running iteration of MutateGrid before d.sort(), and
\* the number of cells DeleteCells leaves.
ThisRound == mutateRound(scn, mg.rule, TheWorld, mg.totalMass, mg.totalPopulation)
OldNumCells == Len(d.cells) - Len(ToDelete)

\* The cells at the positions the emissions loop of line 471 visits; none
\* when emis is nil.
EmisVisited(r) ==
  IF emissions(scn) = Nil THEN {}
  ELSE {r.W.d.cells[i + 1] : i \in Max2(emisStart(OldNumCells), 0)..(Len(r.W.d.cells) - 1)}

\* C22: in every iteration of MutateGrid whose createCell calls succeed,
\* deleteAndAddCells calls setEmissionsFlux only on cells it has just
\* created, never on a cell that was in the grid before, so that EmisFlux of
\* the cells that stay is unchanged; and the emissions loop does not index
\* d.cells out of range.
C22_EmissionsOnlyNewCells ==
  [][ (MutateRoundStep /\ pc'.res # "error") =>
        \E r \in {ThisRound} :
          /\ ~r.panic
          /\ EmisVisited(r) \cap d.index = {}
          /\ \A id \in d.index \cap d'.index : mem'[id].EmisFlux = mem[id].EmisFlux ]_vars

\* The iterations keep EmisFlux of the cells that stay.
C22_FluxKept ==
  [][ (MutateRoundStep /\ pc'.res = "none") =>
        \A id \in d.index \cap d'.index : mem'[id].EmisFlux = mem[id].EmisFlux ]_vars

\* No iteration empties the cell list before the emissions loop.
C22_NoPanic == [][ MutateRoundStep => \E r \in {ThisRound} : ~r.panic ]_vars


----------------------------------------------------------------------------
(* Properties of SetupTimeStep. *)

\* C23: SetupTimeStep writes only while it holds arrayLock in write mode:
\* whenever the lock is free, every setVelocities and every
\* addEmissionsFlux goroutine has returned, no concentration was written
\* with the lock free, and every emission was added with the Dt that
\* setTstep set in the call that started the goroutine.
C23_WritesUnderLock ==
  /\ ~aim.lock => (aim.wg = 0 /\ aim.workers = {})
  /\ ~aim.lateWrite
  /\ ~aim.otherDt

\* The setVelocities goroutines have all returned when the lock is free.
C23_VelocitiesDone == ~aim.lock => aim.wg = 0

\* Every emission is added with the Dt of the call that started its
\* goroutine.
C23_SameDt == ~aim.otherDt


----------------------------------------------------------------------------
(* Properties of the order of the cell list. *)

\* The cells of a layer in the order of the cell list.
CellsOfLayer(m, cells, k) == SelectSeq(cells, LAMBDA id : m[id].Layer = k)
LayersOrdered(m, cells) ==
  \A i, j \in 1..Len(cells) : i < j => m[cells[i]].Layer <= m[cells[j]].Layer

\* C24: when RegularGrid or MutateGrid returns nil, d.cells is ordered by
\* non-decreasing Layer; and so toArray(v, k) and GetGeometry(k, false)
\* return exactly one entry for every cell of layer k, in the order of
\* d.cells, the two of equal length.
C24_LayerOrder ==
  [][ /\ ((CallRegularGrid /\ pc'.fn # "exitInit") \/ MutateGridReturnsNil) =>
           LayersOrdered(mem', d'.cells)
      /\ (CallToArray \/ CallGetGeometry) =>
           \A k \in 0..(d.nlayers - 1) :
              \E ids \in {CellsOfLayer(mem, d.cells, k)} :
                 /\ \A v \in {"TotalPop", "Dz", "Layer"} :
                       toArray(scn, TheWorld, v, k).o
                          = [n \in 1..Len(ids) |-> getValue(scn, mem[ids[n]], v)]
                 /\ GetGeometry(TheWorld, k).o = [n \in 1..Len(ids) |-> mem[ids[n]].geom] ]_vars

\* A reader has left its loop early on a grid that MutateGrid refined and
\* sorted.
C24_Witness ==
  /\ pc.fn = "done" /\ hist.read[1] = "GetGeometry" /\ hist.read[3] /\ hist.read[4] > 0
  /\ \E id \in d.index : Depth(mem[id]) > 1
  /\ \E i \in 1..(Len(d.cells) - 1) : d.cells[i] > d.cells[i + 1]


----------------------------------------------------------------------------
(* Termination of MutateGrid. *)

\* What an iteration of the loop of MutateGrid does to mg: the steps that
\* change mg in this way are the MutateRound steps, and one is possible
\* whenever a call is in progress.
MutateGridLoop ==
  /\ mg.active
  /\ mg' \in {[mg EXCEPT !.rounds = @ + 1], [mg EXCEPT !.rounds = @ + 1, !.active = FALSE]}

\* The goroutine that runs MutateGrid goes on with its loop.
SpecFair == Spec /\ WF_mg(MutateGridLoop)

\* C25: MutateGrid terminates: a call in progress comes to its end, and
\* in it at most len(Xnests) - 1 iterations split something, so that the
\* loop has made at most len(Xnests) iterations when it ends.
C25_MutateGridTerminates ==
  /\ [](/\ mg.rounds <= Len(config(scn).Xnests)
        /\ mg.active => mg.rounds < Len(config(scn).Xnests))
  /\ (mg.active ~> ~mg.active)

\* The loop has ended after len(Xnests) - 1 iterations that split something
\* and one that split nothing, with cells of the deepest nest in the grid.
C25_Witness ==
  /\ ~mg.active /\ mg.rounds = Len(config(scn).Xnests) /\ mg.rounds >= 3
  /\ \E id \in d.index : Depth(mem[id]) = Len(config(scn).Xnests)


----------------------------------------------------------------------------
(* The fixed point of MutateGrid. *)

\* What a sweep of MutateGrid with the rule of the running call finds in
\* world W when the totals are computed anew from W.
SweepAgain(W) ==
  sweep(scn, mg.rule, W, totalMassOf(W.mem, W.d.cells),
        totalPopulationOf(W.mem, W.d.cells, popIndices(scn)[config(scn).PopGridColumn]),
        [i |-> 0, arr |-> W.arr, newCellIndices |-> <<>>, newCellLayers |-> <<>>,
         indicesToDelete |-> <<>>, continueMutating |-> FALSE])

\* No cell of the grid left by the step can be split under the totals of
\* the running call.
NoneToSplit ==
  \A id \in d'.index :
     ~(/\ Depth(mem'[id]) < Len(config(scn).Xnests)
       /\ divideRule(scn, mg.rule, mem', mem'[id], mg.totalMass, mg.totalPopulation))

\* C26: when MutateGrid returns nil, no cell with len(Index) < len(Xnests)
\* satisfies divideRule under the totalMass and totalPopulation computed at
\* the start of the call; and a call of MutateGrid with the same rule made
\* right after it, on the same concentrations, splits no cell and so
\* leaves the set of cells unchanged.
C26_FixedPoint ==
  [][ MutateGridReturnsNil =>
        /\ NoneToSplit
        /\ ~SweepAgain(World(mem', arr', d')).continueMutating ]_vars

\* The first half of C26 alone.
C26_NoneToSplit == [][ MutateGridReturnsNil => NoneToSplit ]_vars


----------------------------------------------------------------------------
(* Properties of DeleteCells and AddCells. *)

\* The cell list without the entries at the 0-based positions P.
RECURSIVE Without(_, _, _)
Without(cells, P, k) ==
  IF k > Len(cells) THEN <<>>
  ELSE (IF (k - 1) \in P THEN <<>> ELSE <<cells[k]>>) \o Without(cells, P, k + 1)

StrictlyIncreasing(s) == \A i, j \in 1..Len(s) : i < j => s[i] < s[j]

\* C27: DeleteCells with strictly increasing positions removes exactly the
\* cells at those positions of the list before the call and keeps the other
\* cells in their order (for the positions MutateGrid passes, for the last
\* position, the first with the last and every two adjacent positions of
\* the grid at hand); and MutateGrid passes the positions of the cells to
\* split in strictly increasing order, so that exactly the cells chosen for
\* splitting are deleted.
C27_DeleteCells ==
  [][ MutateRoundStep =>
        \E idx \in {ToDelete} :
          /\ StrictlyIncreasing(idx)
          /\ {d.cells[idx[n] + 1] : n \in 1..Len(idx)} = {id \in Range(d.cells) : Splits(mem[id])}
          /\ \A del \in {idx, <<Len(d.cells) - 1>>, <<0, Len(d.cells) - 1>>}
                        \cup {<<i, i + 1>> : i \in 0..(Len(d.cells) - 2)} :
                StrictlyIncreasing(del) =>
                  \E W \in {DeleteCells(TheWorld, del)} :
                     /\ W.d.cells = Without(d.cells, Range(del), 1)
                     /\ W.d.index = d.index \ {d.cells[del[n] + 1] : n \in 1..Len(del)}
          /\ pc'.res # "error" => Range(d.cells) \cap Range(d'.cells)
                                    = Range(Without(d.cells, Range(idx), 1)) ]_vars

\* An iteration of MutateGrid has deleted two cells or more and kept others.
C27_Witness ==
  /\ mg.rounds = 1
  /\ Cardinality(Range(hist.mgCells) \ d.index) >= 2
  /\ Range(hist.mgCells) \cap d.index # {}


\* C28: after every sequence of AddCells and DeleteCells calls the program
\* makes, the cells in d.cells are exactly the cells in the spatial index
\* d.index, every entry of d.cells is a cell (none is nil) and no cell is in
\* the list twice.
C28_CellsMatchIndex ==
  /\ Range(d.cells) = d.index
  /\ \A i \in 1..Len(d.cells) : d.cells[i] \in 1..Len(mem)
  /\ \A i, j \in 1..Len(d.cells) : i # j => d.cells[i] # d.cells[j]

\* Cells were deleted and cells were added, one call of MutateGrid after
\* another.
C28_Witness ==
  /\ hist.passes >= 2 /\ mg.rounds >= 1
  /\ Range(hist.mgCells) \ d.index # {}
  /\ d.index \ Range(hist.mgCells) # {}
  /\ \E id \in d.index : Depth(mem[id]) >= 3


----------------------------------------------------------------------------
(* Properties of the wrf2inmap pipeline. *)

\* C29: an accumulator that combines several arrays per time step combines
\* arrays of the same file and hour, and calcPartitioning gets the time
\* steps in chronological order, whatever the processFile goroutines do.
C29_SameTimeStep == ~wrf.mixed /\ ~wrf.unordered

\* C30: the pipeline does not deadlock: main comes to write the file; and
\* when it does, both passes are through, every processFile goroutine has
\* returned and every accumulator has sent all its results, which main
\* received in the order they were sent.
C30_PipelineCompletes ==
  /\ <>(wrf.main = "write")
  /\ [](wrf.main = "write" =>
          /\ wrf.pass = 2
          /\ \A p \in 1..NProcs : wrf.workers[p].st = "done"
          /\ \A a \in DOMAIN wrf.acc :
                wrf.acc[a].out /\ wrf.acc[a].sent = Len(WrfAccs(2)[a].out))

\* main has the results of both passes and writes the file.
C30_Witness ==
  /\ wrf.main = "write" /\ wrf.pass = 2
  /\ \A a \in DOMAIN wrf.acc : wrf.acc[a].sent = Len(WrfAccs(2)[a].out)

============================================================================
